---- MODULE Spec2Model ----
(***************************************************************************)
(* Client-side list pipeline of the CRM table views (Meetings, Leads,      *)
(* Accounts, Contacts): effective meeting status, search / filter / sort,  *)
(* pagination and the view state the handlers keep.  One page is mounted   *)
(* at a time; `view` says which one, and the view-state variables hold the *)
(* state of that page's component.                                         *)
(***************************************************************************)
EXTENDS Integers, Sequences, FiniteSets, TLC

VARIABLES
    view,           \* the mounted page: "meetings" | "leads" | "accounts" | "contacts"
    backend,        \* rows of the page's table in the hosted database
    records,        \* meetings / leads / accounts / contacts (useState, raw fetch result)
    filtered,       \* filteredMeetings / filteredLeads / filteredAccounts / filteredContacts
    loading,        \* loading flag of the mounted component
    searchTerm,     \* searchTerm
    statusFilter,   \* statusFilter (sourceFilter prop in ContactTable)
    ownerFilter,    \* organizerFilter in Meetings, ownerFilter in the tables
    tagFilter,      \* tagFilter (AccountTable only)
    sortColumn,     \* sortColumn in Meetings, sortField in the tables; None when unset
    sortDirection,  \* "asc" | "desc"
    currentPage,    \* currentPage (the tables; Meetings has none)
    selectedIds,    \* selectedMeetings / selectedLeads / selectedAccounts / selectedContacts
    now,            \* the wall clock read by new Date()
    memoNow,        \* clock value read when the filter/sort pass last ran
    memoOwner,      \* organizerFilter captured by the closure of that pass
    renderNow,      \* clock value read by the last render (status badges)
    refreshTrigger, \* refreshTrigger of the Leads / Contacts page
    calls,          \* backend requests the delete handlers have issued, in order
    inFlight,       \* select requests of fetchMeetings that have not been answered
    toDelete,       \* leadToDelete / accountToDelete / contactToDelete / meetingToDelete
                    \* as << value >>; << >> when null
    showDeleteDialog,   \* showDeleteDialog
    display,        \* Calculator: display
    previousValue,  \* Calculator: previousValue as << number >>; << >> when null
    operation,      \* Calculator: operation; None when null
    shouldResetDisplay  \* Calculator: shouldResetDisplay

vars == << view, backend, records, filtered, loading, searchTerm, statusFilter,
           ownerFilter, tagFilter, sortColumn, sortDirection, currentPage,
           selectedIds, now, memoNow, memoOwner, renderNow, refreshTrigger, calls,
           inFlight, toDelete, showDeleteDialog, display, previousValue, operation,
           shouldResetDisplay >>

\* state of the delete handlers and of the refresh they trigger
deletionVars == << refreshTrigger, calls, inFlight, toDelete, showDeleteDialog >>

\* state of the Calculator component
calculatorVars == << display, previousValue, operation, shouldResetDisplay >>

(***************************************************************************)
(* Bounds of the model.                                                    *)
(***************************************************************************)
MaxRows == 2          \* longest table of fully varied records

(***************************************************************************)
(* Text.  A string is a sequence of one-letter strings over a small        *)
(* alphabet with both letter cases; null / undefined is the value Null.    *)
(***************************************************************************)
Null == << "null" >>

\* null for the values the model writes as atoms (ids, column names, tags)
None == "null"

Letters == { "a", "A", "b", "B" }

\* String.prototype.toLowerCase on one UTF-16 unit
LowerChar(c) == CASE c = "A" -> "a" [] c = "B" -> "b" [] OTHER -> c

toLowerCase(s) == [ i \in 1..Len(s) |-> LowerChar(s[i]) ]

\* String.prototype.includes
includes(s, t) ==
    \E i \in 0..(Len(s) - Len(t)) :
        \A k \in 1..Len(t) : s[i + k] = t[k]

\* mutant: the search term is not lower-cased before the comparison
fieldMatches_rawTerm(field, term) ==
    IF field = Null THEN FALSE
    ELSE includes(toLowerCase(field), term)

\* field?.toLowerCase().includes(term.toLowerCase()), as the truthiness of the value:
\* the optional chain yields undefined (falsy) on a null field
fieldMatches(field, term) ==
    IF field = Null THEN FALSE
    ELSE includes(toLowerCase(field), toLowerCase(term))

\* UTF-16 code unit of a letter
CharCode(c) == CASE c = "A" -> 65 [] c = "B" -> 66 [] c = "a" -> 97 [] OTHER -> 98

\* The relational operator < on two strings: code-unit lexicographic order
RECURSIVE strLess(_, _)
strLess(s, t) ==
    IF t = << >> THEN FALSE
    ELSE IF s = << >> THEN TRUE
    ELSE IF CharCode(Head(s)) < CharCode(Head(t)) THEN TRUE
    ELSE IF CharCode(Head(s)) > CharCode(Head(t)) THEN FALSE
    ELSE strLess(Tail(s), Tail(t))

\* Array.prototype.slice(start, end): both ends clamped to the array
slice(s, start, end) ==
    LET lo == IF start > Len(s) THEN Len(s) ELSE start
        hi == IF end > Len(s) THEN Len(s) ELSE end
    IN  IF hi <= lo THEN << >> ELSE SubSeq(s, lo + 1, hi)

\* Array.prototype.includes on an id array
hasId(ids, id) == \E i \in 1..Len(ids) : ids[i] = id

\* list.map(r => r.id)
idList(list) == [ i \in 1..Len(list) |-> list[i].id ]

\* mutant: unchecking removes the last selected id
handleSelectLead_dropLast(prev, leadId, checked) ==
    IF checked THEN Append(prev, leadId)
    ELSE slice(prev, 0, Len(prev) - 1)

\* handleSelectLead: the updater applied to the previous selection
handleSelectLead(prev, leadId, checked) ==
    LET keep(id) == id # leadId
    IN  IF checked THEN Append(prev, leadId) ELSE SelectSeq(prev, keep)

\* handleSelectAccount
handleSelectAccount(prev, accountId, checked) ==
    LET keep(id) == id # accountId
    IN  IF checked THEN Append(prev, accountId) ELSE SelectSeq(prev, keep)

\* handleSelectContact
handleSelectContact(prev, contactId, checked) ==
    LET keep(id) == id # contactId
    IN  IF checked THEN Append(prev, contactId) ELSE SelectSeq(prev, keep)

\* handleSelectMeeting
handleSelectMeeting(prev, meetingId, checked) ==
    LET keep(id) == id # meetingId
    IN  IF checked THEN Append(prev, meetingId) ELSE SelectSeq(prev, keep)

(***************************************************************************)
(* Status Resolver.                                                        *)
(***************************************************************************)
Statuses == { "scheduled", "ongoing", "completed", "cancelled" }

\* getMeetingStatus of @/utils/meetingStatus with the clock as a parameter
getMeetingStatus(meeting, t) ==
    IF meeting.status = "cancelled" THEN "cancelled"
    ELSE IF t >= meeting.start_time /\ t < meeting.end_time THEN "ongoing"
    ELSE IF t >= meeting.end_time THEN "completed"
    ELSE "scheduled"

\* mutant: the stored field is returned instead of the resolver's result
getEffectiveStatus_stored(meeting) == meeting.status

\* getEffectiveStatus: the resolver at the current clock
getEffectiveStatus(meeting) == getMeetingStatus(meeting, now)

\* mutant: the cancelled branch is tested after the time-derived ones
getStatusBadge_timeFirst(meeting, t) ==
    IF t >= meeting.start_time /\ t < meeting.end_time THEN "Ongoing"
    ELSE IF t >= meeting.end_time THEN "Completed"
    ELSE IF meeting.status = "cancelled" THEN "Cancelled"
    ELSE "Scheduled"

\* getStatusBadge: the label of the badge a render at clock t shows for a meeting
getStatusBadge(meeting, t) ==
    LET status == getMeetingStatus(meeting, t)
    IN  IF status = "cancelled" THEN "Cancelled"
        ELSE IF status = "ongoing" THEN "Ongoing"
        ELSE IF status = "completed" THEN "Completed"
        ELSE "Scheduled"

\* The status a badge label stands for
BadgeStatus(label) ==
    CASE label = "Cancelled" -> "cancelled"
      [] label = "Ongoing" -> "ongoing"
      [] label = "Completed" -> "completed"
      [] OTHER -> "scheduled"

(***************************************************************************)
(* Comparators.  A sort key is a record [kind, str | num]; the comparators *)
(* return -1, 0 or 1 as the callbacks passed to Array.prototype.sort do.   *)
(***************************************************************************)
MinutesPerHour == 60
DayMinutes == 24 * MinutesPerHour

\* mutant: the whole timestamp is the date key
dateKey_timestamp(t) == t

\* new Date(start_time).setHours(0, 0, 0, 0), in minutes since the epoch
dateKey(t) == t - (t % DayMinutes)

\* getHours() * 60 + getMinutes()
timeKey(t) == ((t % DayMinutes) \div MinutesPerHour) * MinutesPerHour + (t % MinutesPerHour)

\* position of a status string in code-unit order ("ca" < "co" < "o" < "s")
statusOrder(st) ==
    CASE st = "cancelled" -> 1
      [] st = "completed" -> 2
      [] st = "ongoing"   -> 3
      [] OTHER            -> 4

\* x || '' on an optional string
orEmpty(x) == IF x = Null THEN << >> ELSE x

\* the switch of the Meetings comparator: aValue / bValue for a column
meetingSortValue(m, column, t) ==
    CASE column = "subject" ->
             [ kind |-> "str", str |-> orEmpty(IF m.subject = Null THEN Null ELSE toLowerCase(m.subject)), num |-> 0 ]
      [] column = "date" -> [ kind |-> "num", str |-> << >>, num |-> dateKey(m.start_time) ]
      [] column = "time" -> [ kind |-> "num", str |-> << >>, num |-> timeKey(m.start_time) ]
      [] column = "lead_contact" ->
             [ kind |-> "str", num |-> 0,
               str |-> toLowerCase(IF orEmpty(m.lead_name) # << >> THEN m.lead_name
                                   ELSE orEmpty(m.contact_name)) ]
      [] column = "status" ->
             [ kind |-> "num", str |-> << >>, num |-> statusOrder(getMeetingStatus(m, t)) ]
      [] OTHER -> [ kind |-> "str", str |-> << >>, num |-> 0 ]

valueLess(a, b) ==
    IF a.kind = "num" THEN a.num < b.num ELSE strLess(a.str, b.str)

\* the comparator of sortedAndFilteredMeetings
meetingCompare(a, b, column, direction, t) ==
    LET aValue == meetingSortValue(a, column, t)
        bValue == meetingSortValue(b, column, t)
    IN  IF valueLess(aValue, bValue) THEN (IF direction = "asc" THEN -1 ELSE 1)
        ELSE IF valueLess(bValue, aValue) THEN (IF direction = "asc" THEN 1 ELSE -1)
        ELSE 0

(***************************************************************************)
(* Table pages (LeadTable, AccountTable, ContactTable): comparators.       *)
(***************************************************************************)
\* String.prototype.localeCompare under the default collation: letters first
\* compare without regard to case; strings equal up to case are ordered by the
\* first letter whose case differs, lower case first
RECURSIVE caseOrder(_, _)
caseOrder(s, t) ==
    IF s = << >> THEN 0
    ELSE IF Head(s) = Head(t) THEN caseOrder(Tail(s), Tail(t))
    ELSE IF LowerChar(Head(s)) = Head(s) THEN -1
    ELSE 1

localeCompare(s, t) ==
    IF strLess(toLowerCase(s), toLowerCase(t)) THEN -1
    ELSE IF strLess(toLowerCase(t), toLowerCase(s)) THEN 1
    ELSE caseOrder(s, t)

\* mutant: a record without the field is keyed by its id
sortFieldValue_idFallback(record, field) ==
    IF field \in DOMAIN record THEN orEmpty(record[field])
    ELSE IF record.id % 2 = 0 THEN << "a" >> ELSE << "b" >>

\* a[sortField] || ''
sortFieldValue(record, field) ==
    IF field \in DOMAIN record THEN orEmpty(record[field]) ELSE << >>

\* comparator of LeadTable: localeCompare of the raw values
leadCompare(a, b, field, direction) ==
    LET comparison == localeCompare(sortFieldValue(a, field), sortFieldValue(b, field))
    IN  IF direction = "asc" THEN comparison ELSE 0 - comparison

\* comparator of AccountTable: the same callback
accountCompare(a, b, field, direction) ==
    LET comparison == localeCompare(sortFieldValue(a, field), sortFieldValue(b, field))
    IN  IF direction = "asc" THEN comparison ELSE 0 - comparison

\* comparator of ContactTable: both values lower-cased before localeCompare
contactCompare(a, b, field, direction) ==
    LET comparison == localeCompare(toLowerCase(sortFieldValue(a, field)),
                                    toLowerCase(sortFieldValue(b, field)))
    IN  IF direction = "asc" THEN comparison ELSE 0 - comparison

\* Comparator dispatch: cmp is [page, column, direction, t]
compare(a, b, cmp) ==
    CASE cmp.page = "meetings" -> meetingCompare(a, b, cmp.column, cmp.direction, cmp.t)
      [] cmp.page = "leads"    -> leadCompare(a, b, cmp.column, cmp.direction)
      [] cmp.page = "accounts" -> accountCompare(a, b, cmp.column, cmp.direction)
      [] OTHER                 -> contactCompare(a, b, cmp.column, cmp.direction)

\* mutant: the array is left in its order
sortWith_unsorted(s, cmp) == s

\* mutant: elements that compare equal come out in reverse order
sortWith_unstable(s, cmp) ==
    LET n == Len(s)
        before(j, i) ==
            LET c == compare(s[j], s[i], cmp)
            IN  c < 0 \/ (c = 0 /\ j > i)
        rank == SubSeq([ i \in 1..n |->
                           Cardinality({ j \in 1..n : j # i /\ before(j, i) }) + 1 ], 1, n)
    IN  [ k \in 1..n |-> s[CHOOSE i \in 1..n : rank[i] = k] ]

\* Array.prototype.sort with a comparator: a stable sort. The element at index i
\* comes after the elements that compare below it and after the elements before
\* it in the array that compare equal to it.
sortWith(s, cmp) ==
    LET n == Len(s)
        before(j, i) ==
            LET c == compare(s[j], s[i], cmp)
            IN  c < 0 \/ (c = 0 /\ j < i)
        rank == SubSeq([ i \in 1..n |->
                           Cardinality({ j \in 1..n : j # i /\ before(j, i) }) + 1 ], 1, n)
    IN  [ k \in 1..n |-> s[CHOOSE i \in 1..n : rank[i] = k] ]

(***************************************************************************)
(* Meetings page: the filter/sort pass.                                    *)
(***************************************************************************)
meetingMatchesSearch(meeting, term) ==
    \/ fieldMatches(meeting.subject, term)
    \/ fieldMatches(meeting.lead_name, term)
    \/ fieldMatches(meeting.contact_name, term)

\* mutant: the stored status field is compared with the filter
meetingMatchesStatus_stored(meeting, sFilter, t) ==
    sFilter = "all" \/ meeting.status = sFilter

meetingMatchesStatus(meeting, sFilter, t) ==
    sFilter = "all" \/ getMeetingStatus(meeting, t) = sFilter

meetingMatchesOrganizer(meeting, oFilter) ==
    oFilter = "all" \/ meeting.created_by = oFilter

\* the callback of the useMemo, run at clock t with the values its closure holds
sortedAndFilteredMeetings(meetings, term, sFilter, oFilter, column, direction, t) ==
    LET keep(meeting) == /\ meetingMatchesSearch(meeting, term)
                         /\ meetingMatchesStatus(meeting, sFilter, t)
                         /\ meetingMatchesOrganizer(meeting, oFilter)
        kept == SelectSeq(meetings, keep)
    IN  IF column # None
        THEN sortWith(kept, [ page |-> "meetings", column |-> column,
                              direction |-> direction, t |-> t ])
        ELSE kept

(***************************************************************************)
(* Meetings page: state after mount, and the handlers.                     *)
(***************************************************************************)
StatusOptions == { "all" } \cup Statuses       \* the SelectItems of the status Select

\* one filter/sort pass and the render that follows it (useMemo + the effect
\* copying its result into filteredMeetings)
MeetingsPass ==
    /\ filtered' = sortedAndFilteredMeetings(records', searchTerm', statusFilter',
                                             ownerFilter', sortColumn', sortDirection', now)
    /\ memoNow' = now
    /\ memoOwner' = ownerFilter'
    /\ renderNow' = now

\* a render in which no dependency of the useMemo changed: the cached list is kept
MeetingsRenderOnly ==
    /\ renderNow' = now
    /\ UNCHANGED << filtered, memoNow, memoOwner >>

\* useState initial values of the delete dialog and of refreshTrigger; nothing has
\* been requested
DeletionInit ==
    /\ refreshTrigger = 0
    /\ calls = << >>
    /\ inFlight = << >>
    /\ toDelete = << >>
    /\ showDeleteDialog = FALSE

\* useState initial values of Calculator
CalculatorInit ==
    /\ display = << "0" >>
    /\ previousValue = << >>
    /\ operation = None
    /\ shouldResetDisplay = FALSE

MeetingsInit(tables, initialStatuses, owners) ==
    /\ view = "meetings"
    /\ backend \in tables
    /\ records = << >>
    /\ filtered = << >>
    /\ loading = TRUE
    /\ searchTerm = << >>
    /\ statusFilter \in initialStatuses
    /\ ownerFilter \in owners
    /\ tagFilter = None
    /\ sortColumn = None
    /\ sortDirection = "asc"
    /\ currentPage = 1
    /\ selectedIds = << >>
    /\ now = 0
    /\ memoNow = 0
    /\ memoOwner = "all"
    /\ renderNow = 0
    /\ DeletionInit
    /\ CalculatorInit

\* fetchMeetings, from the response on
MeetingsFetchDone ==
    /\ view = "meetings"
    /\ loading
    /\ records' = backend
    /\ selectedIds' = << >>
    /\ loading' = FALSE
    /\ UNCHANGED << deletionVars, calculatorVars,
                    view, backend, searchTerm, statusFilter, ownerFilter, tagFilter,
                    sortColumn, sortDirection, currentPage, now >>
    /\ MeetingsPass

\* onChange of the search Input
MeetingsSetSearchTerm(term) ==
    /\ view = "meetings"
    /\ ~loading
    /\ term # searchTerm
    /\ searchTerm' = term
    /\ UNCHANGED << deletionVars, calculatorVars,
                    view, backend, records, loading, statusFilter, ownerFilter, tagFilter,
                    sortColumn, sortDirection, currentPage, selectedIds, now >>
    /\ MeetingsPass

\* onValueChange of the status Select
MeetingsSetStatusFilter(value) ==
    /\ view = "meetings"
    /\ ~loading
    /\ value # statusFilter
    /\ statusFilter' = value
    /\ UNCHANGED << deletionVars, calculatorVars,
                    view, backend, records, loading, searchTerm, ownerFilter, tagFilter,
                    sortColumn, sortDirection, currentPage, selectedIds, now >>
    /\ MeetingsPass

\* onValueChange of the organizer Select: organizerFilter is no dependency of the useMemo
MeetingsSetOrganizerFilter(value) ==
    /\ view = "meetings"
    /\ ~loading
    /\ value # ownerFilter
    /\ ownerFilter' = value
    /\ UNCHANGED << deletionVars, calculatorVars,
                    view, backend, records, loading, searchTerm, statusFilter, tagFilter,
                    sortColumn, sortDirection, currentPage, selectedIds, now >>
    /\ MeetingsRenderOnly

MeetingsHandleSort(column) ==
    /\ view = "meetings"
    /\ ~loading
    /\ IF sortColumn = column
       THEN /\ sortDirection' = (IF sortDirection = "asc" THEN "desc" ELSE "asc")
            /\ UNCHANGED sortColumn
       ELSE /\ sortColumn' = column
            /\ sortDirection' = "asc"
    /\ UNCHANGED << deletionVars, calculatorVars,
                    view, backend, records, loading, searchTerm, statusFilter, ownerFilter,
                    tagFilter, currentPage, selectedIds, now >>
    /\ MeetingsPass

\* isAllSelected / isSomeSelected
isAllSelected == Len(filtered) > 0 /\ Len(selectedIds) = Len(filtered)
isSomeSelected == Len(selectedIds) > 0 /\ Len(selectedIds) < Len(filtered)

\* handleSelectAll, called by the header Checkbox with the opposite of what it shows
MeetingsHandleSelectAll(checked) ==
    /\ view = "meetings"
    /\ ~loading
    /\ checked = ~isAllSelected
    /\ selectedIds' = (IF checked THEN idList(filtered) ELSE << >>)
    /\ selectedIds' # selectedIds
    /\ UNCHANGED << deletionVars, calculatorVars,
                    view, backend, records, loading, searchTerm, statusFilter, ownerFilter,
                    tagFilter, sortColumn, sortDirection, currentPage, now >>
    /\ MeetingsRenderOnly

\* the row Checkbox reports the opposite of what it shows
MeetingsHandleSelectMeeting(i) ==
    /\ view = "meetings"
    /\ ~loading
    /\ i \in 1..Len(filtered)
    /\ selectedIds' = handleSelectMeeting(selectedIds, filtered[i].id,
                                          ~hasId(selectedIds, filtered[i].id))
    /\ UNCHANGED << deletionVars, calculatorVars,
                    view, backend, records, loading, searchTerm, statusFilter, ownerFilter,
                    tagFilter, sortColumn, sortDirection, currentPage, now >>
    /\ MeetingsRenderOnly

(***************************************************************************)
(* The clock.                                                              *)
(***************************************************************************)
MaxNow == 2

Tick ==
    /\ now < MaxNow
    /\ now' = now + 1
    /\ UNCHANGED << deletionVars, calculatorVars,
                    view, backend, records, filtered, loading, searchTerm, statusFilter,
                    ownerFilter, tagFilter, sortColumn, sortDirection, currentPage,
                    selectedIds, memoNow, memoOwner, renderNow >>


(***************************************************************************)
(* Table pages: the filter/sort effect.                                    *)
(***************************************************************************)
leadMatchesSearch(lead, term) ==
    \/ fieldMatches(lead.lead_name, term)
    \/ fieldMatches(lead.company_name, term)
    \/ fieldMatches(lead.email, term)

\* body of the LeadTable effect up to setFilteredLeads
leadFilterSort(leads, term, sFilter, oFilter, field, direction) ==
    LET bySearch(lead) == leadMatchesSearch(lead, term)
        byStatus(lead) == lead.lead_status = sFilter
        byOwner(lead)  == lead.created_by = oFilter
        f0 == SelectSeq(leads, bySearch)
        f1 == IF sFilter # "all" THEN SelectSeq(f0, byStatus) ELSE f0
        f2 == IF oFilter # "all" THEN SelectSeq(f1, byOwner) ELSE f1
    IN  IF field # None
        THEN sortWith(f2, [ page |-> "leads", column |-> field,
                            direction |-> direction, t |-> 0 ])
        ELSE f2

accountMatchesSearch(account, term) ==
    \/ fieldMatches(account.company_name, term)
    \/ fieldMatches(account.industry, term)
    \/ fieldMatches(account.country, term)

\* the tags column: null, or an array of tags
NoTags == [ isNull |-> TRUE, items |-> { } ]
TagsOf(items) == [ isNull |-> FALSE, items |-> items ]

\* account.tags?.includes(tagFilter)
accountHasTag(account, tag) ==
    IF account.tags.isNull THEN FALSE ELSE tag \in account.tags.items

\* mutant: the owner filter is not applied
accountFilterSort_noOwner(accounts, term, sFilter, oFilter, tFilter, field, direction) ==
    LET bySearch(account) == accountMatchesSearch(account, term)
        byStatus(account) == account.status = sFilter
        byTag(account)    == accountHasTag(account, tFilter)
        f0 == SelectSeq(accounts, bySearch)
        f1 == IF sFilter # "all" THEN SelectSeq(f0, byStatus) ELSE f0
        f3 == IF tFilter # None THEN SelectSeq(f1, byTag) ELSE f1
    IN  IF field # None
        THEN sortWith(f3, [ page |-> "accounts", column |-> field,
                            direction |-> direction, t |-> 0 ])
        ELSE f3

\* body of the AccountTable effect up to setFilteredAccounts
accountFilterSort(accounts, term, sFilter, oFilter, tFilter, field, direction) ==
    LET bySearch(account) == accountMatchesSearch(account, term)
        byStatus(account) == account.status = sFilter
        byOwner(account)  == account.created_by = oFilter
        byTag(account)    == accountHasTag(account, tFilter)
        f0 == SelectSeq(accounts, bySearch)
        f1 == IF sFilter # "all" THEN SelectSeq(f0, byStatus) ELSE f0
        f2 == IF oFilter # "all" THEN SelectSeq(f1, byOwner) ELSE f1
        f3 == IF tFilter # None THEN SelectSeq(f2, byTag) ELSE f2
    IN  IF field # None
        THEN sortWith(f3, [ page |-> "accounts", column |-> field,
                            direction |-> direction, t |-> 0 ])
        ELSE f3

contactMatchesSearch(contact, term) ==
    \/ fieldMatches(contact.contact_name, term)
    \/ fieldMatches(contact.company_name, term)
    \/ fieldMatches(contact.email, term)

\* toLowerCase on a contact source
sourceLower(source) == IF source = "Web" THEN "web" ELSE source

\* body of the ContactTable effect up to setFilteredContacts
contactFilterSort(contacts, term, srcFilter, oFilter, field, direction) ==
    LET bySearch(contact) == contactMatchesSearch(contact, term)
        bySource(contact) == /\ contact.contact_source # None
                             /\ sourceLower(contact.contact_source) = sourceLower(srcFilter)
        byOwner(contact)  == contact.created_by = oFilter
        f0 == SelectSeq(contacts, bySearch)
        f1 == IF srcFilter # "all" THEN SelectSeq(f0, bySource) ELSE f0
        f2 == IF oFilter # "all" THEN SelectSeq(f1, byOwner) ELSE f1
    IN  IF field # None
        THEN sortWith(f2, [ page |-> "contacts", column |-> field,
                            direction |-> direction, t |-> 0 ])
        ELSE f2

(***************************************************************************)
(* Table pages: pagination.                                                *)
(***************************************************************************)
itemsPerPage == 50

\* Math.ceil(filtered.length / itemsPerPage)
totalPagesOf(list) == (Len(list) + itemsPerPage - 1) \div itemsPerPage

\* mutant: the slice starts at page * itemsPerPage
getCurrentPageLeads_fromPage(list, page) ==
    LET startIndex == page * itemsPerPage
    IN  slice(list, startIndex, startIndex + itemsPerPage)

\* getCurrentPageLeads
getCurrentPageLeads(list, page) ==
    LET startIndex == (page - 1) * itemsPerPage
    IN  slice(list, startIndex, startIndex + itemsPerPage)

\* getCurrentPageAccounts
getCurrentPageAccounts(list, page) ==
    LET startIndex == (page - 1) * itemsPerPage
    IN  slice(list, startIndex, startIndex + itemsPerPage)

\* pageContacts of ContactTable
pageContactsOf(list, page) ==
    LET startIndex == (page - 1) * itemsPerPage
    IN  slice(list, startIndex, startIndex + itemsPerPage)

\* the rows the mounted table renders when its current page is page; the Meetings
\* table maps over filteredMeetings
pageRowsAt(page) ==
    CASE view = "leads"    -> getCurrentPageLeads(filtered, page)
      [] view = "accounts" -> getCurrentPageAccounts(filtered, page)
      [] view = "contacts" -> pageContactsOf(filtered, page)
      [] OTHER             -> filtered

pageRows == pageRowsAt(currentPage)

(***************************************************************************)
(* Table pages: state after mount, and the handlers.                       *)
(***************************************************************************)
TableViews == { "leads", "accounts", "contacts" }

\* mutant: the effect ends without setCurrentPage(1)
TablePass_keepPage ==
    /\ filtered' =
         CASE view = "leads" ->
                  leadFilterSort(records', searchTerm', statusFilter', ownerFilter',
                                 sortColumn', sortDirection')
           [] view = "accounts" ->
                  accountFilterSort(records', searchTerm', statusFilter', ownerFilter',
                                    tagFilter', sortColumn', sortDirection')
           [] OTHER ->
                  contactFilterSort(records', searchTerm', statusFilter', ownerFilter',
                                    sortColumn', sortDirection')
    /\ currentPage' = currentPage

\* the filter/sort effect of the mounted table, ending in setCurrentPage(1)
TablePass ==
    /\ filtered' =
         CASE view = "leads" ->
                  leadFilterSort(records', searchTerm', statusFilter', ownerFilter',
                                 sortColumn', sortDirection')
           [] view = "accounts" ->
                  accountFilterSort(records', searchTerm', statusFilter', ownerFilter',
                                    tagFilter', sortColumn', sortDirection')
           [] OTHER ->
                  contactFilterSort(records', searchTerm', statusFilter', ownerFilter',
                                    sortColumn', sortDirection')
    /\ currentPage' = 1

\* initialStatus: "New" in Leads, "all" in Accounts and for the source filter of Contacts
TableInit(v, tables, initialStatuses) ==
    /\ view = v
    /\ backend \in tables
    /\ records = << >>
    /\ filtered = << >>
    /\ loading = TRUE
    /\ searchTerm = << >>
    /\ statusFilter \in initialStatuses
    /\ ownerFilter = "all"
    /\ tagFilter = None
    /\ sortColumn = None
    /\ sortDirection = "asc"
    /\ currentPage = 1
    /\ selectedIds = << >>
    /\ now = 0
    /\ memoNow = 0
    /\ memoOwner = "all"
    /\ renderNow = 0
    /\ DeletionInit
    /\ CalculatorInit

\* ContactTable shows a spinner instead of its header and body while loading
inputsShown == view # "contacts" \/ ~loading

\* fetchLeads / fetchAccounts / fetchContacts, from the response on
TableFetchDone ==
    /\ view \in TableViews
    /\ loading
    /\ records' = backend
    /\ loading' = FALSE
    /\ UNCHANGED << deletionVars, calculatorVars,
                    view, backend, searchTerm, statusFilter, ownerFilter, tagFilter,
                    sortColumn, sortDirection, selectedIds, now, memoNow, memoOwner,
                    renderNow >>
    /\ TablePass

\* mutant: the effect also drops the selected ids that left the list
TableSetSearchTerm_pruning(term) ==
    /\ view \in TableViews
    /\ inputsShown
    /\ term # searchTerm
    /\ searchTerm' = term
    /\ UNCHANGED << deletionVars, calculatorVars,
                    view, backend, records, loading, statusFilter, ownerFilter, tagFilter,
                    sortColumn, sortDirection, now, memoNow, memoOwner, renderNow >>
    /\ TablePass
    /\ LET listed(id) == \E i \in 1..Len(filtered') : filtered'[i].id = id
       IN  selectedIds' = SelectSeq(selectedIds, listed)

TableSetSearchTerm(term) ==
    /\ view \in TableViews
    /\ inputsShown
    /\ term # searchTerm
    /\ searchTerm' = term
    /\ UNCHANGED << deletionVars, calculatorVars,
                    view, backend, records, loading, statusFilter, ownerFilter, tagFilter,
                    sortColumn, sortDirection, selectedIds, now, memoNow, memoOwner,
                    renderNow >>
    /\ TablePass

TableSetStatusFilter(value) ==
    /\ view \in TableViews
    /\ inputsShown
    /\ value # statusFilter
    /\ statusFilter' = value
    /\ UNCHANGED << deletionVars, calculatorVars,
                    view, backend, records, loading, searchTerm, ownerFilter, tagFilter,
                    sortColumn, sortDirection, selectedIds, now, memoNow, memoOwner,
                    renderNow >>
    /\ TablePass

TableSetOwnerFilter(value) ==
    /\ view \in TableViews
    /\ inputsShown
    /\ value # ownerFilter
    /\ ownerFilter' = value
    /\ UNCHANGED << deletionVars, calculatorVars,
                    view, backend, records, loading, searchTerm, statusFilter, tagFilter,
                    sortColumn, sortDirection, selectedIds, now, memoNow, memoOwner,
                    renderNow >>
    /\ TablePass

\* click on a tag Badge of a rendered account row, or on the clear button of the tag chip
AccountSetTagFilter(tag) ==
    /\ view = "accounts"
    /\ ~loading
    /\ tag # tagFilter
    /\ \/ tag = None
       \/ \E i \in 1..Len(pageRows) : accountHasTag(pageRows[i], tag)
    /\ tagFilter' = tag
    /\ UNCHANGED << deletionVars, calculatorVars,
                    view, backend, records, loading, searchTerm, statusFilter, ownerFilter,
                    sortColumn, sortDirection, selectedIds, now, memoNow, memoOwner,
                    renderNow >>
    /\ TablePass

\* mutant: a click on another column keeps the direction
TableHandleSort_keepDirection(field) ==
    /\ view \in TableViews
    /\ inputsShown
    /\ IF sortColumn = field
       THEN /\ sortDirection' = (IF sortDirection = "asc" THEN "desc" ELSE "asc")
            /\ UNCHANGED sortColumn
       ELSE /\ sortColumn' = field
            /\ UNCHANGED sortDirection
    /\ UNCHANGED << deletionVars, calculatorVars,
                    view, backend, records, loading, searchTerm, statusFilter, ownerFilter,
                    tagFilter, selectedIds, now, memoNow, memoOwner, renderNow >>
    /\ TablePass

TableHandleSort(field) ==
    /\ view \in TableViews
    /\ inputsShown
    /\ IF sortColumn = field
       THEN /\ sortDirection' = (IF sortDirection = "asc" THEN "desc" ELSE "asc")
            /\ UNCHANGED sortColumn
       ELSE /\ sortColumn' = field
            /\ sortDirection' = "asc"
    /\ UNCHANGED << deletionVars, calculatorVars,
                    view, backend, records, loading, searchTerm, statusFilter, ownerFilter,
                    tagFilter, selectedIds, now, memoNow, memoOwner, renderNow >>
    /\ TablePass

\* mutant: Previous is prev - 1 on a button that is never disabled
TablePreviousPage_belowOne ==
    /\ view \in { "leads", "accounts" }
    /\ totalPagesOf(filtered) > 1
    /\ currentPage' = currentPage - 1
    /\ UNCHANGED << deletionVars, calculatorVars,
                    view, backend, records, filtered, loading, searchTerm, statusFilter,
                    ownerFilter, tagFilter, sortColumn, sortDirection, selectedIds, now,
                    memoNow, memoOwner, renderNow >>

\* Previous button of LeadTable / AccountTable: shown when totalPages > 1
TablePreviousPage ==
    /\ view \in { "leads", "accounts" }
    /\ totalPagesOf(filtered) > 1
    /\ currentPage # 1
    /\ currentPage' = (IF currentPage - 1 > 1 THEN currentPage - 1 ELSE 1)
    /\ UNCHANGED << deletionVars, calculatorVars,
                    view, backend, records, filtered, loading, searchTerm, statusFilter,
                    ownerFilter, tagFilter, sortColumn, sortDirection, selectedIds, now,
                    memoNow, memoOwner, renderNow >>

\* mutant: the Next button also clears the sort and lists the rows unsorted
TableNextPage_clearsSort ==
    /\ view \in { "leads", "accounts" }
    /\ totalPagesOf(filtered) > 1
    /\ currentPage # totalPagesOf(filtered)
    /\ currentPage' = (IF currentPage + 1 < totalPagesOf(filtered) THEN currentPage + 1
                       ELSE totalPagesOf(filtered))
    /\ sortColumn' = None
    /\ filtered' = (IF view = "leads"
                    THEN leadFilterSort(records, searchTerm, statusFilter, ownerFilter,
                                        None, sortDirection)
                    ELSE accountFilterSort(records, searchTerm, statusFilter, ownerFilter,
                                           tagFilter, None, sortDirection))
    /\ UNCHANGED << deletionVars, calculatorVars,
                    view, backend, records, loading, searchTerm, statusFilter,
                    ownerFilter, tagFilter, sortDirection, selectedIds, now,
                    memoNow, memoOwner, renderNow >>

\* Next button of LeadTable / AccountTable
TableNextPage ==
    /\ view \in { "leads", "accounts" }
    /\ totalPagesOf(filtered) > 1
    /\ currentPage # totalPagesOf(filtered)
    /\ currentPage' = (IF currentPage + 1 < totalPagesOf(filtered) THEN currentPage + 1
                       ELSE totalPagesOf(filtered))
    /\ UNCHANGED << deletionVars, calculatorVars,
                    view, backend, records, filtered, loading, searchTerm, statusFilter,
                    ownerFilter, tagFilter, sortColumn, sortDirection, selectedIds, now,
                    memoNow, memoOwner, renderNow >>

\* the header Checkbox is on screen: always in LeadTable and AccountTable, in
\* ContactTableBody once the page has rows
headerShown == view # "contacts" \/ (~loading /\ Len(pageRows) > 0)

\* checked of the header Checkbox
headerChecked ==
    IF view = "meetings" THEN isAllSelected
    ELSE /\ Len(selectedIds) > 0
         /\ Len(selectedIds) = (IF Len(pageRows) < 50 THEN Len(pageRows) ELSE 50)

\* indeterminate of the header Checkbox: set from isSomeSelected in Meetings, never
\* set in the three tables
headerIndeterminate == IF view = "meetings" THEN isSomeSelected ELSE FALSE

\* handleSelectAll of LeadTable / AccountTable / ContactTableBody, called by the
\* header Checkbox with the opposite of what it shows
TableHandleSelectAll(checked) ==
    /\ view \in TableViews
    /\ headerShown
    /\ checked = ~headerChecked
    /\ selectedIds' = (IF checked THEN idList(slice(pageRows, 0, 50)) ELSE << >>)
    /\ selectedIds' # selectedIds
    /\ UNCHANGED << deletionVars, calculatorVars,
                    view, backend, records, filtered, loading, searchTerm, statusFilter,
                    ownerFilter, tagFilter, sortColumn, sortDirection, currentPage, now,
                    memoNow, memoOwner, renderNow >>

\* the Checkbox of row i of the page, which reports the opposite of what it shows;
\* while loading the body is a single "Loading..." row (a spinner in ContactTable)
TableHandleSelectRow(i) ==
    /\ view \in TableViews
    /\ ~loading
    /\ i \in 1..Len(pageRows)
    /\ LET id == pageRows[i].id
           checked == ~hasId(selectedIds, id)
       IN  selectedIds' =
               CASE view = "leads"    -> handleSelectLead(selectedIds, id, checked)
                 [] view = "accounts" -> handleSelectAccount(selectedIds, id, checked)
                 [] OTHER             -> handleSelectContact(selectedIds, id, checked)
    /\ UNCHANGED << deletionVars, calculatorVars,
                    view, backend, records, filtered, loading, searchTerm, statusFilter,
                    ownerFilter, tagFilter, sortColumn, sortDirection, currentPage, now,
                    memoNow, memoOwner, renderNow >>

\* onPageChange={setCurrentPage} of ContactTablePagination, shown when
\* totalPages > 1, for a page of 1..totalPages
ContactOnPageChange(page) ==
    /\ view = "contacts"
    /\ ~loading
    /\ totalPagesOf(filtered) > 1
    /\ page \in 1..totalPagesOf(filtered)
    /\ page # currentPage
    /\ currentPage' = page
    /\ UNCHANGED << deletionVars, calculatorVars,
                    view, backend, records, filtered, loading, searchTerm, statusFilter,
                    ownerFilter, tagFilter, sortColumn, sortDirection, selectedIds, now,
                    memoNow, memoOwner, renderNow >>

(***************************************************************************)
(* Tables the specifications start from.                                   *)
(***************************************************************************)
Users == { "u1", "u2" }

\* a row's id is its position in the backend's answer
withIds(rows) == [ i \in 1..Len(rows) |-> [ id |-> i ] @@ rows[i] ]

TablesOf(rowSet, maxLen) ==
    UNION { { withIds(t) : t \in [ 1..n -> rowSet ] } : n \in 0..maxLen }

\* the ids of a list of rows
idsOf(list) == { list[i].id : i \in 1..Len(list) }

rowById(list, id) == CHOOSE r \in { list[i] : i \in 1..Len(list) } : r.id = id

(***************************************************************************)
(* Status resolver specification: one meeting of any stored status and any *)
(* window startTime <= endTime, and the clock passing over it.             *)
(***************************************************************************)
StatusRows ==
    { [ subject |-> << "A" >>, lead_name |-> Null, contact_name |-> Null,
        status |-> st, created_by |-> "u1", start_time |-> s, end_time |-> e ] :
        st \in Statuses, s \in 0..MaxNow, e \in 0..MaxNow } 

ValidStatusRows == { r \in StatusRows : r.start_time <= r.end_time }

InitStatus == MeetingsInit(TablesOf(ValidStatusRows, 1), { "all" }, { "all" })

NextStatus ==
    \/ MeetingsFetchDone
    \/ \E checked \in BOOLEAN : MeetingsHandleSelectAll(checked)
    \/ Tick

SpecStatus == InitStatus /\ [][NextStatus]_vars

\* C1: a meeting whose stored status is cancelled resolves to cancelled, and shows
\* the Cancelled badge, at every clock value: before its start, inside its window
\* and after its end.
CancelledAlwaysWins ==
    \A i \in 1..Len(records) :
        records[i].status = "cancelled" =>
            /\ getEffectiveStatus(records[i]) = "cancelled"
            /\ getStatusBadge(records[i], now) = "Cancelled"
            /\ \A t \in 0..MaxNow : getMeetingStatus(records[i], t) = "cancelled"

\* a cancelled meeting is on screen and its window lies entirely in the past
CancelledPastWitness ==
    /\ Len(filtered) = 1
    /\ filtered[1].status = "cancelled"
    /\ filtered[1].start_time < filtered[1].end_time
    /\ filtered[1].end_time < now
    /\ renderNow = now

\* C2 as written: for a meeting not stored as cancelled the status is ongoing iff
\* startTime <= now < endTime, completed iff now >= endTime, scheduled iff
\* now < startTime; now = startTime gives ongoing, now = endTime gives completed; the
\* result is one of the four statuses.
TimeDerivedStatusAsWritten ==
    \A i \in 1..Len(records) :
        LET m == records[i]
            st == getEffectiveStatus(m)
        IN  m.status # "cancelled" =>
                /\ st \in Statuses
                /\ (st = "ongoing") <=> (m.start_time <= now /\ now < m.end_time)
                /\ (st = "completed") <=> (now >= m.end_time)
                /\ (st = "scheduled") <=> (now < m.start_time)
                /\ (now = m.start_time) => (st = "ongoing")
                /\ (now = m.end_time) => (st = "completed")

\* C2 amended: the same, with now = startTime giving ongoing only when the meeting
\* has a non-empty window (startTime < endTime); a meeting with startTime = endTime
\* is completed from that instant on.
TimeDerivedStatus ==
    \A i \in 1..Len(records) :
        LET m == records[i]
            st == getEffectiveStatus(m)
        IN  m.status # "cancelled" =>
                /\ st \in Statuses
                /\ st # "cancelled"
                /\ (st = "ongoing") <=> (m.start_time <= now /\ now < m.end_time)
                /\ (st = "completed") <=> (now >= m.end_time)
                /\ (st = "scheduled") <=> (now < m.start_time)
                /\ (now = m.start_time /\ m.start_time < m.end_time) => (st = "ongoing")
                /\ (now = m.end_time) => (st = "completed")

\* a meeting stored as scheduled is read exactly at its end: completed
EndBoundaryWitness ==
    /\ Len(records) = 1
    /\ records[1].status = "scheduled"
    /\ records[1].start_time < records[1].end_time
    /\ now = records[1].end_time
    /\ getEffectiveStatus(records[1]) = "completed"

(***************************************************************************)
(* Meetings page specification: the view's filters, sort and clock.        *)
(***************************************************************************)
\* meetings over the window [1, 2): two organizers, one cancelled, one of no length
MeetingRows ==
    { [ subject |-> << "A", "b" >>, lead_name |-> Null, contact_name |-> Null,
        status |-> x[1], created_by |-> x[2], start_time |-> 1, end_time |-> x[3] ] :
        x \in { << "scheduled", "u1", 2 >>, << "scheduled", "u2", 2 >>,
                << "cancelled", "u1", 2 >>, << "scheduled", "u1", 1 >> } }

MeetingsTerms == { << >>, << "a" >> }
MeetingsColumns == { "status" }
MeetingsOrganizers == { "all", "u1" }

InitMeetings == MeetingsInit(TablesOf(MeetingRows, MaxRows), { "all" }, { "all" })

NextMeetings ==
    \/ MeetingsFetchDone
    \/ \E term \in MeetingsTerms : MeetingsSetSearchTerm(term)
    \/ \E value \in StatusOptions : MeetingsSetStatusFilter(value)
    \/ \E value \in MeetingsOrganizers : MeetingsSetOrganizerFilter(value)
    \/ \E column \in MeetingsColumns : MeetingsHandleSort(column)
    \/ \E checked \in BOOLEAN : MeetingsHandleSelectAll(checked)
    \/ Tick

SpecMeetings == InitMeetings /\ [][NextMeetings]_vars

\* C3: with a status filter s other than "all", a meeting that passes the search
\* and the organizer predicate of the pass is in the filtered list iff its effective
\* status at the time of the pass is s; its stored status plays no part.
StatusFilterUsesEffectiveStatus ==
    statusFilter # "all" =>
        \A i \in 1..Len(records) :
            LET m == records[i]
            IN  /\ (m.id \in idsOf(filtered)) => getMeetingStatus(m, memoNow) = statusFilter
                /\ ( /\ meetingMatchesSearch(m, searchTerm)
                     /\ meetingMatchesOrganizer(m, memoOwner)
                     /\ getMeetingStatus(m, memoNow) = statusFilter )
                   => m.id \in idsOf(filtered)

\* a meeting stored as scheduled whose end has passed is listed under "completed"
StoredScheduledKeptAsCompleted ==
    /\ statusFilter = "completed"
    /\ \E i \in 1..Len(filtered) : filtered[i].status = "scheduled"

\* C4: with a status filter s other than "all", every listed row shows the badge
\* of status s, which is the status the pass used as its key; stated for the states
\* in which no filter changed since the pass.
BadgeEqualsFilterKey ==
    (statusFilter # "all" /\ ownerFilter = memoOwner) =>
        \A i \in 1..Len(filtered) :
            /\ BadgeStatus(getStatusBadge(filtered[i], renderNow)) = statusFilter
            /\ BadgeStatus(getStatusBadge(filtered[i], renderNow))
                   = getMeetingStatus(filtered[i], memoNow)

\* C5: the list on screen is the pass applied to the current records, search term,
\* status filter, organizer filter, sort column and sort direction.
ListFollowsInputs ==
    ~loading =>
        filtered = sortedAndFilteredMeetings(records, searchTerm, statusFilter, ownerFilter,
                                             sortColumn, sortDirection, memoNow)

(***************************************************************************)
(* Search specification: every page with one row whose three searchable    *)
(* fields take any of the sample texts, and the search box.                *)
(***************************************************************************)
SearchTexts == { Null, << >>, << "A", "B", "a" >>, << "a", "b", "a" >>, << "b" >> }
SearchTerms == { << >>, << "a", "b" >>, << "A", "B" >>, << "b", "b" >> }

\* the searchable fields of each page's filter
searchFields(v) ==
    CASE v = "meetings" -> << "subject", "lead_name", "contact_name" >>
      [] v = "leads"    -> << "lead_name", "company_name", "email" >>
      [] v = "accounts" -> << "company_name", "industry", "country" >>
      [] OTHER          -> << "contact_name", "company_name", "email" >>

\* a row of page v with the texts f in its searchable fields
rowOf(v, f, status, owner, tags) ==
    CASE v = "meetings" ->
             [ subject |-> f[1], lead_name |-> f[2], contact_name |-> f[3],
               status |-> status, created_by |-> owner, start_time |-> 1, end_time |-> 2 ]
      [] v = "leads" ->
             [ lead_name |-> f[1], company_name |-> f[2], email |-> f[3],
               lead_status |-> status, created_by |-> owner ]
      [] v = "accounts" ->
             [ company_name |-> f[1], industry |-> f[2], country |-> f[3],
               status |-> status, created_by |-> owner, tags |-> tags ]
      [] OTHER ->
             [ contact_name |-> f[1], company_name |-> f[2], email |-> f[3],
               contact_source |-> status, created_by |-> owner ]

\* initialStatus of each page when the URL names none
defaultStatus(v) == IF v = "leads" THEN "New" ELSE "all"

\* a status value rows of page v carry
sampleStatus(v) ==
    CASE v = "meetings" -> "scheduled" [] v = "contacts" -> "Web" [] OTHER -> "New"

SearchTables(v) ==
    { withIds(<< rowOf(v, f, sampleStatus(v), "u1", NoTags) >>) :
        f \in SearchTexts \X SearchTexts \X SearchTexts }

InitSearch ==
    \/ MeetingsInit(SearchTables("meetings"), { "all" }, { "all" })
    \/ \E v \in TableViews : TableInit(v, SearchTables(v), { defaultStatus(v) })

NextSearch ==
    \/ MeetingsFetchDone
    \/ TableFetchDone
    \/ \E term \in SearchTerms : MeetingsSetSearchTerm(term)
    \/ \E term \in SearchTerms : TableSetSearchTerm(term)

SpecSearch == InitSearch /\ [][NextSearch]_vars

\* two letters that differ at most in case
sameLetter(c, d) ==
    \/ c = d
    \/ { c, d } = { "a", "A" }
    \/ { c, d } = { "b", "B" }

\* term occurs in text at some offset, letter case disregarded
occursIgnoringCase(text, term) ==
    \E o \in 0..(Len(text) - Len(term)) :
        \A k \in 1..Len(term) : sameLetter(text[o + k], term[k])

\* C6: a record passes the search step iff one of the page's searchable fields is
\* present and contains the search term, letter case disregarded on both sides.
SearchIsCaseInsensitiveSubstring ==
    \A i \in 1..Len(records) :
        LET r == records[i]
            fields == searchFields(view)
        IN  (r.id \in idsOf(filtered)) <=>
                \E k \in 1..Len(fields) :
                    /\ r[fields[k]] # Null
                    /\ occursIgnoringCase(r[fields[k]], searchTerm)

\* the lower-case term "ab" finds the row whose only text is the upper-case "ABa"
LowerTermFindsUpperName ==
    /\ searchTerm = << "a", "b" >>
    /\ \E i \in 1..Len(filtered) :
           LET fields == searchFields(view)
           IN  /\ filtered[i][fields[1]] = << "A", "B", "a" >>
               /\ filtered[i][fields[2]] = Null
               /\ filtered[i][fields[3]] = Null

\* C7: with an empty search term every record is kept, also the record whose
\* searchable fields are all null.
EmptySearchKeepsEveryRecord ==
    (~loading /\ searchTerm = << >>) => idsOf(filtered) = idsOf(records)

(***************************************************************************)
(* Accounts table specification: search, status, owner and tag filters and *)
(* the sort over tables of accounts that differ in each filtered field.    *)
(***************************************************************************)
AccountRows ==
    { rowOf("accounts", << x[1], Null, << "b" >> >>, x[2], x[3], x[4]) :
        x \in { << << "A", "b" >>, "New",     "u1", NoTags >>,
                << << "A", "b" >>, "New",     "u2", TagsOf({ "t1", "t2" }) >>,
                << << "A" >>,      "Working", "u1", TagsOf({ "t1" }) >>,
                << << "a" >>,      "New",     "u1", TagsOf({ "t2" }) >>,
                << Null,           "Working", "u2", NoTags >> } }

AccountTerms    == { << >>, << "a" >>, << "B" >> }
AccountStatuses == { "all", "New", "Working" }
AccountOwners   == { "all" } \cup Users
AccountTags     == { None, "t1", "t2" }
AccountFields   == { "company_name" }

InitAccounts == TableInit("accounts", TablesOf(AccountRows, MaxRows), { "all" })

NextAccounts ==
    \/ TableFetchDone
    \/ \E term \in AccountTerms : TableSetSearchTerm(term)
    \/ \E value \in AccountStatuses : TableSetStatusFilter(value)
    \/ \E value \in AccountOwners : TableSetOwnerFilter(value)
    \/ \E tag \in AccountTags : AccountSetTagFilter(tag)
    \/ \E field \in AccountFields : TableHandleSort(field)

SpecAccounts == InitAccounts /\ [][NextAccounts]_vars

\* the four predicates of the filter step, each with its no-op value
passesStep(account, step) ==
    CASE step = "search" -> accountMatchesSearch(account, searchTerm)
      [] step = "status" -> statusFilter = "all" \/ account.status = statusFilter
      [] step = "owner"  -> ownerFilter = "all" \/ account.created_by = ownerFilter
      [] OTHER           -> tagFilter = None \/ accountHasTag(account, tagFilter)

FilterSteps == { "search", "status", "owner", "tag" }

\* the orders in which the four predicates can be applied
StepOrders ==
    { order \in [ 1..Cardinality(FilterSteps) -> FilterSteps ] :
        \A i, j \in DOMAIN order : i # j => order[i] # order[j] }

RECURSIVE applySteps(_, _)
applySteps(list, order) ==
    IF order = << >> THEN list
    ELSE LET keep(account) == passesStep(account, Head(order))
         IN  applySteps(SelectSeq(list, keep), Tail(order))

\* C8: an account of the raw collection is listed iff it passes the search and the
\* status, owner and tag predicates; every listed account is one of the raw
\* collection, listed once; and applying the predicates one after the other gives
\* the same set in each of their orders.
FilterIsConjunction ==
    ~loading =>
        /\ \A i \in 1..Len(records) :
               (records[i].id \in idsOf(filtered)) <=>
                   \A step \in FilterSteps : passesStep(records[i], step)
        /\ \A i \in 1..Len(filtered) :
               \E j \in 1..Len(records) : filtered[i] = records[j]
        /\ Cardinality(idsOf(filtered)) = Len(filtered)
        /\ \A order \in StepOrders : idsOf(applySteps(records, order)) = idsOf(filtered)

\* all four filters are active and each one rejects what another one keeps
AllFiltersActive ==
    /\ ~loading
    /\ searchTerm # << >>
    /\ statusFilter # "all"
    /\ ownerFilter # "all"
    /\ tagFilter # None
    /\ Len(records) = MaxRows
    /\ Len(filtered) = 1
    /\ \E i \in 1..Len(records) :
           /\ accountMatchesSearch(records[i], searchTerm)
           /\ records[i].status = statusFilter
           /\ accountHasTag(records[i], tagFilter)
           /\ records[i].created_by # ownerFilter

(***************************************************************************)
(* Paging specification: every page over a table of 0..MaxBulk rows, the   *)
(* search box and the page buttons.                                        *)
(***************************************************************************)
MaxBulk == 120

\* rows 1..n; the odd rows carry the letter b, the even rows do not
bulkTable(v, n) ==
    [ i \in 1..n |->
        [ id |-> i ] @@
        rowOf(v, << IF i % 2 = 1 THEN << "A", "b" >> ELSE << "a" >>, Null, Null >>,
              sampleStatus(v), "u1", NoTags) ]

BulkTables(v) == { bulkTable(v, n) : n \in 0..MaxBulk }

PagingTerms == { << >>, << "b" >> }

InitPaging ==
    \/ MeetingsInit(BulkTables("meetings"), { "all" }, { "all" })
    \/ \E v \in TableViews : TableInit(v, BulkTables(v), { defaultStatus(v) })

NextPaging ==
    \/ MeetingsFetchDone
    \/ TableFetchDone
    \/ \E term \in PagingTerms : MeetingsSetSearchTerm(term)
    \/ \E term \in PagingTerms : TableSetSearchTerm(term)
    \/ TablePreviousPage
    \/ TableNextPage

SpecPaging == InitPaging /\ [][NextPaging]_vars

\* the lengths of the slices of pages 1..p, added up
RECURSIVE sumOfPageLengths(_)
sumOfPageLengths(p) ==
    IF p = 0 THEN 0 ELSE Len(pageRowsAt(p)) + sumOfPageLengths(p - 1)

\* C9: in the paginated tables, page p of 1..totalPages shows the rows
\* (p-1)*pageSize+1 .. min(p*pageSize, n) of the filtered and sorted list in its
\* order, at most pageSize of them; totalPages is ceil(n / pageSize); the slice
\* lengths of all pages add up to n; the table on screen shows the slice of the
\* current page.
PaginationPartitions ==
    view \in TableViews =>
        LET n == Len(filtered)
            totalPages == totalPagesOf(filtered)
        IN  /\ totalPages * itemsPerPage >= n
            /\ (totalPages - 1) * itemsPerPage < n \/ (n = 0 /\ totalPages = 0)
            /\ \A p \in 1..totalPages :
                   LET first == (p - 1) * itemsPerPage
                       last  == IF p * itemsPerPage < n THEN p * itemsPerPage ELSE n
                   IN  /\ Len(pageRowsAt(p)) = last - first
                       /\ Len(pageRowsAt(p)) <= itemsPerPage
                       /\ \A k \in 1..(last - first) :
                              pageRowsAt(p)[k] = filtered[first + k]
            /\ sumOfPageLengths(totalPages) = n
            /\ currentPage \in 1..(IF totalPages = 0 THEN 1 ELSE totalPages)
            /\ pageRows = pageRowsAt(currentPage)

\* 120 leads, page 3 on screen: the rows 101..120
ThirdPageOfHundredTwenty ==
    /\ view = "leads"
    /\ Len(filtered) = 2 * itemsPerPage + 20
    /\ currentPage = 3
    /\ Len(pageRows) = 20
    /\ pageRows[1].id = 2 * itemsPerPage + 1
    /\ pageRows[20].id = 2 * itemsPerPage + 20

\* C10: in every table view, Meetings included, the table renders at most pageSize
\* rows.
RenderedRowsAtMostPageSize == Len(pageRows) <= itemsPerPage

(***************************************************************************)
(* Page reset specification: the paginated tables over tables of more than *)
(* one page whose rows differ in every filtered field, with every input of *)
(* the filter/sort effect and the page controls.                           *)
(***************************************************************************)
\* a second status value rows of page v carry
otherStatus(v) ==
    CASE v = "meetings" -> "cancelled" [] v = "contacts" -> "referral"
      [] v = "accounts" -> "Working" [] OTHER -> "Qualified"

\* rows 1..n that differ in name, status, owner and tags
variedTable(v, n) ==
    [ i \in 1..n |->
        [ id |-> i ] @@
        rowOf(v, << IF i % 2 = 1 THEN << "A", "b" >> ELSE << "a" >>, Null, Null >>,
              IF i % 3 = 0 THEN otherStatus(v) ELSE sampleStatus(v),
              IF i % 5 = 0 THEN "u2" ELSE "u1",
              IF i % 7 = 0 THEN TagsOf({ "t1" }) ELSE NoTags) ]

VariedTables(v) == { variedTable(v, n) : n \in { 0, itemsPerPage + 1, itemsPerPage + 20 } }

ResetTerms == { << >>, << "a" >> }
ResetStatuses(v) == { "all", sampleStatus(v) }
ResetOwners == { "all", "u1" }

InitPageReset == \E v \in TableViews : TableInit(v, VariedTables(v), { defaultStatus(v) })

NextPageReset ==
    \/ TableFetchDone
    \/ \E term \in ResetTerms : TableSetSearchTerm(term)
    \/ \E value \in ResetStatuses(view) : TableSetStatusFilter(value)
    \/ \E value \in ResetOwners : TableSetOwnerFilter(value)
    \/ \E tag \in { None, "t1" } : AccountSetTagFilter(tag)
    \/ \E field \in { searchFields(view)[1] } : TableHandleSort(field)
    \/ TablePreviousPage
    \/ TableNextPage
    \/ \E page \in 1..2 : ContactOnPageChange(page)

SpecPageReset == InitPageReset /\ [][NextPageReset]_vars

\* C11: a step that changes the search term, a filter, the sort column or the sort
\* direction of a paginated table ends with currentPage = 1, from every page.
InputChangeResetsPage ==
    [][ ( \/ searchTerm' # searchTerm
          \/ statusFilter' # statusFilter
          \/ ownerFilter' # ownerFilter
          \/ tagFilter' # tagFilter
          \/ sortColumn' # sortColumn
          \/ sortDirection' # sortDirection ) => currentPage' = 1 ]_vars

\* a later page of a list of several pages is on screen, with a filter and a sort on
OnLaterPageWithInputsSet ==
    /\ currentPage > 1
    /\ totalPagesOf(filtered) > 1
    /\ searchTerm # << >>
    /\ sortColumn # None
    /\ sortDirection = "desc"

(***************************************************************************)
(* Selection specification: every page over tables of one and of two       *)
(* pages, with the search box, the checkboxes and the page controls.       *)
(***************************************************************************)
MaxToggle == 2

SelectionTables(v) == { bulkTable(v, n) : n \in { 0, MaxToggle, itemsPerPage + 23 } }

InitSelection ==
    \/ MeetingsInit(SelectionTables("meetings"), { "all" }, { "all" })
    \/ \E v \in TableViews : TableInit(v, SelectionTables(v), { defaultStatus(v) })

\* rows are ticked one by one among the first MaxToggle rows, up to MaxToggle ids
NextSelection ==
    \/ MeetingsFetchDone
    \/ TableFetchDone
    \/ \E term \in PagingTerms : MeetingsSetSearchTerm(term)
    \/ \E term \in PagingTerms : TableSetSearchTerm(term)
    \/ \E checked \in BOOLEAN : MeetingsHandleSelectAll(checked)
    \/ \E checked \in BOOLEAN : TableHandleSelectAll(checked)
    \/ \E i \in 1..MaxToggle :
           /\ MeetingsHandleSelectMeeting(i)
           /\ Len(selectedIds') <= MaxToggle \/ Len(selectedIds') < Len(selectedIds)
    \/ \E i \in 1..MaxToggle :
           /\ TableHandleSelectRow(i)
           /\ Len(selectedIds') <= MaxToggle \/ Len(selectedIds') < Len(selectedIds)
    \/ TablePreviousPage
    \/ TableNextPage
    \/ \E page \in 1..2 : ContactOnPageChange(page)

SpecSelection == InitSelection /\ [][NextSelection]_vars

\* C12: a step that ticks the header checkbox leaves as selection exactly the ids of
\* the rows of the current page, at most pageSize of them, in every table, Meetings
\* included.
SelectAllIsPageScoped ==
    [][ (MeetingsHandleSelectAll(TRUE) \/ TableHandleSelectAll(TRUE)) =>
            /\ selectedIds' = idList(pageRows)
            /\ Len(selectedIds') <= itemsPerPage ]_vars

\* C13: after a step of the Previous or Next control, every selected id is the id of
\* a row of the page now on screen.
PageChangeDropsSelection ==
    [][ (TablePreviousPage \/ TableNextPage \/ \E page \in 1..2 : ContactOnPageChange(page)) =>
            \A k \in 1..Len(selectedIds') :
                \E i \in 1..Len(pageRows') : pageRows'[i].id = selectedIds'[k] ]_vars

(***************************************************************************)
(* Row selection specification: every page over small tables, with the     *)
(* search box, the status filter, the sort headers and the checkboxes.     *)
(***************************************************************************)
ToggleRows(v) ==
    { rowOf(v, << name, Null, Null >>, status, "u1", NoTags) :
        name \in { << "A", "b" >>, << "a" >> },
        status \in { sampleStatus(v), otherStatus(v) } }

InitToggle ==
    \/ MeetingsInit(TablesOf(ToggleRows("meetings"), MaxRows), { "all" }, { "all" })
    \/ \E v \in TableViews :
           TableInit(v, TablesOf(ToggleRows(v), MaxRows), { defaultStatus(v) })

NextToggle ==
    \/ MeetingsFetchDone
    \/ TableFetchDone
    \/ \E term \in PagingTerms : MeetingsSetSearchTerm(term)
    \/ \E term \in PagingTerms : TableSetSearchTerm(term)
    \/ \E value \in ResetStatuses(view) : MeetingsSetStatusFilter(value)
    \/ \E value \in ResetStatuses(view) : TableSetStatusFilter(value)
    \/ \E column \in { searchFields(view)[1] } : MeetingsHandleSort(column)
    \/ \E field \in { searchFields(view)[1] } : TableHandleSort(field)
    \/ \E checked \in BOOLEAN : MeetingsHandleSelectAll(checked)
    \/ \E checked \in BOOLEAN : TableHandleSelectAll(checked)
    \/ \E i \in 1..MaxRows : MeetingsHandleSelectMeeting(i)
    \/ \E i \in 1..MaxRows : TableHandleSelectRow(i)

SpecToggle == InitToggle /\ [][NextToggle]_vars

\* C14: a step that changes the search term, a filter, the sort column or the sort
\* direction leaves the selection as it was.
FilterChangeKeepsSelection ==
    [][ ( \/ searchTerm' # searchTerm
          \/ statusFilter' # statusFilter
          \/ ownerFilter' # ownerFilter
          \/ tagFilter' # tagFilter
          \/ sortColumn' # sortColumn
          \/ sortDirection' # sortDirection ) => selectedIds' = selectedIds ]_vars

\* an id selected while listed is still selected after a search removed its row
SelectedIdLeftTheList ==
    /\ ~loading
    /\ searchTerm # << >>
    /\ \E k \in 1..Len(selectedIds) : selectedIds[k] \notin idsOf(filtered)
    /\ \E k \in 1..Len(selectedIds) : selectedIds[k] \in idsOf(records)

\* the ids of a selection
idSet(ids) == { ids[k] : k \in 1..Len(ids) }

HeaderCheckboxState ==
    (~loading /\ headerShown) =>
        LET m == IF Len(pageRows) < itemsPerPage THEN Len(pageRows) ELSE itemsPerPage
        IN  /\ headerChecked <=> (Len(selectedIds) > 0 /\ Len(selectedIds) = m)
            /\ headerIndeterminate <=> (Len(selectedIds) > 0 /\ Len(selectedIds) < m)
            /\ ~(headerChecked /\ headerIndeterminate)

(***************************************************************************)
(* Sort specification: every page over small tables whose first text       *)
(* column holds texts that differ in case only, differ in letters, or are  *)
(* null, and whose second text column holds one text; the sort headers.    *)
(***************************************************************************)
SortRows(v) ==
    { rowOf(v, << name, << "a" >>, Null >>, status, "u1", NoTags) :
        name \in { << "A", "b" >>, << "a", "b" >>, << "b" >>, Null },
        status \in { sampleStatus(v), otherStatus(v) } }

\* the sort headers clicked on each page
SortColumns(v) ==
    IF v = "meetings" THEN { "subject", "lead_contact", "status" }
    ELSE { searchFields(v)[1], searchFields(v)[2] }

InitSort ==
    \/ MeetingsInit(TablesOf(SortRows("meetings"), MaxRows), { "all" }, { "all" })
    \/ \E v \in TableViews :
           TableInit(v, TablesOf(SortRows(v), MaxRows), { defaultStatus(v) })

NextSort ==
    \/ MeetingsFetchDone
    \/ TableFetchDone
    \/ \E column \in SortColumns(view) : MeetingsHandleSort(column)
    \/ \E field \in SortColumns(view) : TableHandleSort(field)

SpecSort == InitSort /\ [][NextSort]_vars

\* C17: a click on the header of the sort column toggles the direction and keeps the
\* column; a click on another header makes it the sort column with direction asc.
SortClickTransition ==
    [][ \A column \in SortColumns(view) :
            (MeetingsHandleSort(column) \/ TableHandleSort(column)) =>
                IF sortColumn = column
                THEN /\ sortColumn' = sortColumn
                     /\ sortDirection' = (IF sortDirection = "asc" THEN "desc" ELSE "asc")
                ELSE /\ sortColumn' = column
                     /\ sortDirection' = "asc" ]_vars

\* the same header was clicked twice
SortedDescending ==
    /\ ~loading
    /\ sortColumn # None
    /\ sortDirection = "desc"

\* the comparator of the page on screen for its sort column, in a direction
comparatorOf(direction) ==
    [ page |-> view, column |-> sortColumn, direction |-> direction, t |-> memoNow ]

\* the filtered sequence before the sort
preSort ==
    CASE view = "meetings" ->
             sortedAndFilteredMeetings(records, searchTerm, statusFilter, memoOwner,
                                       None, sortDirection, memoNow)
      [] view = "leads" ->
             leadFilterSort(records, searchTerm, statusFilter, ownerFilter,
                            None, sortDirection)
      [] view = "accounts" ->
             accountFilterSort(records, searchTerm, statusFilter, ownerFilter,
                               tagFilter, None, sortDirection)
      [] OTHER ->
             contactFilterSort(records, searchTerm, statusFilter, ownerFilter,
                               None, sortDirection)

\* the position of a row in a list
positionIn(list, row) == CHOOSE k \in 1..Len(list) : list[k].id = row.id

\* C18: with a sort column, the list is a permutation of the filtered rows in which
\* no row is followed by one that compares below it (asc) or above it (desc), and
\* the desc comparator is the negation of the asc comparator on every pair.
SortedByColumnKey ==
    (~loading /\ sortColumn # None) =>
        /\ Len(filtered) = Len(preSort)
        /\ \A k \in 1..Len(preSort) : \E i \in 1..Len(filtered) : filtered[i] = preSort[k]
        /\ \A i, j \in 1..Len(filtered) :
               i < j => IF sortDirection = "asc"
                        THEN compare(filtered[i], filtered[j], comparatorOf("asc")) <= 0
                        ELSE compare(filtered[i], filtered[j], comparatorOf("asc")) >= 0
        /\ \A i, j \in 1..Len(filtered) :
               compare(filtered[i], filtered[j], comparatorOf("desc"))
                   = 0 - compare(filtered[i], filtered[j], comparatorOf("asc"))

\* a descending sort that moved a row ahead of the row it followed
DescendingSortMovedRows ==
    /\ ~loading
    /\ sortColumn # None
    /\ sortDirection = "desc"
    /\ Len(filtered) = MaxRows
    /\ filtered # preSort
    /\ compare(filtered[1], filtered[MaxRows], comparatorOf("asc")) > 0

\* the text a row carries in the sort column, before any case folding
rawTextKey(row) ==
    CASE view # "meetings" -> sortFieldValue(row, sortColumn)
      [] sortColumn = "subject" -> orEmpty(row.subject)
      [] OTHER -> IF orEmpty(row.lead_name) # << >> THEN row.lead_name
                  ELSE orEmpty(row.contact_name)

\* two texts that differ at most in the case of their letters
sameIgnoringCase(s, t) ==
    /\ Len(s) = Len(t)
    /\ \A k \in 1..Len(s) : sameLetter(s[k], t[k])

\* C19: under a text sort column, two listed rows whose texts differ only in letter
\* case compare as equal and stand in their pre-sort order, asc and desc.
TextTiesIgnoreCase ==
    (~loading /\ sortColumn # None /\ sortColumn # "status") =>
        \A i, j \in 1..Len(filtered) :
            (i < j /\ sameIgnoringCase(rawTextKey(filtered[i]), rawTextKey(filtered[j]))) =>
                /\ compare(filtered[i], filtered[j], comparatorOf(sortDirection)) = 0
                /\ positionIn(preSort, filtered[i]) < positionIn(preSort, filtered[j])

\* C20: two listed rows that compare equal under the sort stand in the order they
\* have in the pre-sort filtered sequence, asc and desc.
SortIsStable ==
    (~loading /\ sortColumn # None) =>
        \A i, j \in 1..Len(filtered) :
            (i < j /\ compare(filtered[i], filtered[j], comparatorOf(sortDirection)) = 0) =>
                positionIn(preSort, filtered[i]) < positionIn(preSort, filtered[j])

\* a descending sort of rows with equal keys
DescendingSortOfEqualKeys ==
    /\ ~loading
    /\ sortColumn # None
    /\ sortDirection = "desc"
    /\ Len(filtered) = MaxRows
    /\ \A i, j \in 1..Len(filtered) :
           compare(filtered[i], filtered[j], comparatorOf("desc")) = 0

(***************************************************************************)
(* No-op ordering specification: every page over small tables, the search  *)
(* box, and sort headers that include a column the records do not carry.   *)
(***************************************************************************)
\* a column of the table's column list that no fetched record carries
absentColumn(v) == IF v = "accounts" THEN "website" ELSE "position"

NoOpColumns(v) ==
    IF v = "meetings" THEN { "subject" }
    ELSE { searchFields(v)[1], absentColumn(v) }

InitNoOp == InitSort

NextNoOp ==
    \/ MeetingsFetchDone
    \/ TableFetchDone
    \/ \E term \in PagingTerms : MeetingsSetSearchTerm(term)
    \/ \E term \in PagingTerms : TableSetSearchTerm(term)
    \/ \E column \in NoOpColumns(view) : MeetingsHandleSort(column)
    \/ \E field \in NoOpColumns(view) : TableHandleSort(field)

SpecNoOp == InitNoOp /\ [][NextNoOp]_vars

\* list holds the rows that pass the filters, in the order of the fetched records
inFetchOrder(list) ==
    /\ Len(list) = Len(preSort)
    /\ idsOf(list) = idsOf(preSort)
    /\ \A i \in 1..Len(list) : list[i] = rowById(records, list[i].id)
    /\ \A i, j \in 1..Len(list) :
           i < j => positionIn(records, list[i]) < positionIn(records, list[j])

\* C21: without a sort column, and with a sort column that no record carries or
\* that the comparator does not know, the list is the filtered sequence in fetch
\* order, asc and desc.
NoOpOrdering ==
    ~loading =>
        /\ sortColumn = None => inFetchOrder(filtered)
        /\ (view \in TableViews /\ sortColumn = absentColumn(view)) => inFetchOrder(filtered)
        /\ view = "meetings" =>
               \A direction \in { "asc", "desc" } :
                   inFetchOrder(sortedAndFilteredMeetings(records, searchTerm, statusFilter,
                                                          memoOwner, "unrecognized",
                                                          direction, memoNow))

\* a table sorted desc by a column its records do not carry, after a search
SortedByAbsentColumn ==
    /\ ~loading
    /\ view \in TableViews
    /\ sortColumn = absentColumn(view)
    /\ sortDirection = "desc"
    /\ searchTerm # << >>
    /\ Len(filtered) = MaxRows

(***************************************************************************)
(* Date and time sort specification: the Meetings page over meetings that  *)
(* start on two days at two times of day, and the date and time headers.   *)
(***************************************************************************)
\* start times in minutes: 09:00 and 10:30 on the first day and on the next day
StartTimes ==
    { day * DayMinutes + minute : day \in { 0, 1 },
                                  minute \in { 9 * MinutesPerHour, 10 * MinutesPerHour + 30 } }

DateRows ==
    { [ subject |-> << "a" >>, lead_name |-> Null, contact_name |-> Null,
        status |-> "scheduled", created_by |-> "u1",
        start_time |-> t, end_time |-> t + MinutesPerHour ] : t \in StartTimes }

InitDates == MeetingsInit(TablesOf(DateRows, MaxRows), { "all" }, { "all" })

NextDates ==
    \/ MeetingsFetchDone
    \/ \E column \in { "date", "time" } : MeetingsHandleSort(column)

SpecDates == InitDates /\ [][NextDates]_vars

\* the calendar day of a timestamp, and its minutes since midnight
dayOf(t) == t \div DayMinutes
minuteOfDay(t) == t % DayMinutes

\* C22: sorted by 'date', meetings are ordered by calendar day and two meetings of
\* one day are a tie, whatever their times; sorted by 'time', they are ordered by
\* minutes since midnight and two meetings at one time of day are a tie, whatever
\* their days. Ties stand in pre-sort order.
DateAndTimeAreDistinctKeys ==
    (~loading /\ sortColumn \in { "date", "time" }) =>
        \A i, j \in 1..Len(filtered) :
            i < j =>
                LET a == filtered[i]
                    b == filtered[j]
                    ka == IF sortColumn = "date" THEN dayOf(a.start_time)
                          ELSE minuteOfDay(a.start_time)
                    kb == IF sortColumn = "date" THEN dayOf(b.start_time)
                          ELSE minuteOfDay(b.start_time)
                IN  IF ka = kb
                    THEN /\ compare(a, b, comparatorOf(sortDirection)) = 0
                         /\ positionIn(preSort, a) < positionIn(preSort, b)
                    ELSE IF sortDirection = "asc" THEN ka < kb ELSE ka > kb

\* sorted by date, the later meeting of a day stays ahead of the earlier one
SameDayIsATie ==
    /\ ~loading
    /\ sortColumn = "date"
    /\ Len(filtered) = MaxRows
    /\ dayOf(filtered[1].start_time) = dayOf(filtered[MaxRows].start_time)
    /\ filtered[1].start_time > filtered[MaxRows].start_time

\* C23: a step of the Previous or Next control changes currentPage and leaves the
\* list, the search term, the filters, the sort column, the sort direction and the
\* records as they were.
PageChangeKeepsList ==
    [][ (TablePreviousPage \/ TableNextPage \/ \E page \in 1..2 : ContactOnPageChange(page)) =>
            /\ currentPage' # currentPage
            /\ filtered' = filtered
            /\ records' = records
            /\ searchTerm' = searchTerm
            /\ statusFilter' = statusFilter
            /\ ownerFilter' = ownerFilter
            /\ tagFilter' = tagFilter
            /\ sortColumn' = sortColumn
            /\ sortDirection' = sortDirection ]_vars

\* the second page of a list the sort has reordered
SecondPageOfSortedList ==
    /\ ~loading
    /\ currentPage = 2
    /\ sortColumn # None
    /\ filtered # preSort

(***************************************************************************)
(* Deleting records: the delete dialog of a row, the bulk delete of the    *)
(* selection, and the fetch each of them starts.  A handler runs to its    *)
(* end in one step; `calls` holds the requests its last run sent.          *)
(***************************************************************************)
MaxDeletes == 2

\* the table after delete().in('id', ids) / delete().eq('id', id)
withoutIds(list, ids) == SelectSeq(list, LAMBDA r : ~hasId(ids, r.id))

\* the rows on screen
shownRows == IF view = "meetings" THEN filtered ELSE pageRows

\* Array.prototype.includes on the log of requests
wasCalled(log, request) == \E k \in 1..Len(log) : log[k] = request

\* the Delete entry of row i: setLeadToDelete(lead) / setAccountToDelete(account) /
\* onDelete(contact.id) / setMeetingToDelete(meeting.id), and setShowDeleteDialog(true)
OpenDeleteDialog(i) ==
    /\ ~loading
    /\ ~showDeleteDialog
    /\ i \in 1..Len(shownRows)
    /\ toDelete' = << IF view \in { "leads", "accounts" } THEN shownRows[i]
                      ELSE shownRows[i].id >>
    /\ showDeleteDialog' = TRUE
    /\ UNCHANGED << calculatorVars, refreshTrigger, calls, inFlight, view, backend, records,
                    filtered, loading, searchTerm, statusFilter, ownerFilter, tagFilter,
                    sortColumn, sortDirection, currentPage, selectedIds, now, memoNow,
                    memoOwner, renderNow >>

\* Cancel of the dialog: onCancel of LeadDeleteConfirmDialog and
\* AccountDeleteConfirmDialog also clears the record, onOpenChange of the AlertDialog
\* of ContactTable and Meetings only closes it
CancelDelete ==
    /\ showDeleteDialog
    /\ showDeleteDialog' = FALSE
    /\ toDelete' = (IF view \in { "leads", "accounts" } THEN << >> ELSE toDelete)
    /\ UNCHANGED << calculatorVars, refreshTrigger, calls, inFlight, view, backend, records,
                    filtered, loading, searchTerm, statusFilter, ownerFilter, tagFilter,
                    sortColumn, sortDirection, currentPage, selectedIds, now, memoNow,
                    memoOwner, renderNow >>

\* mutant: the lead is deleted although the deletion of its action items failed
handleDelete_ignoringActionItems(leadToDelete, deleteLinkedRecords, errors, actionItems) ==
    IF leadToDelete = << >> \/ "id" \notin DOMAIN leadToDelete[1]
    THEN [ calls |-> << >>, deleted |-> FALSE, done |-> FALSE ]
    ELSE LET linked ==
                 IF deleteLinkedRecords
                 THEN << "notifications.delete" >> \o << "lead_action_items.delete" >>
                 ELSE << >>
         IN  [ calls |-> linked \o << "leads.delete" >>,
               deleted |-> "leads" \notin errors,
               done |-> "leads" \notin errors ]

\* handleDelete of LeadTable: the requests it sends in order, whether the row of the
\* lead was deleted, and whether it reached fetchLeads / setLeadToDelete(null) /
\* setShowDeleteDialog(false).  errors: the tables whose delete reports an error;
\* actionItems: the lead has action items (read by the fallback only)
handleDelete(leadToDelete, deleteLinkedRecords, errors, actionItems) ==
    IF leadToDelete = << >> \/ "id" \notin DOMAIN leadToDelete[1]
    THEN [ calls |-> << >>, deleted |-> FALSE, done |-> FALSE ]
    ELSE LET fallback ==
                 << "notifications.delete.lead_id", "lead_action_items.select" >>
                 \o (IF actionItems THEN << "notifications.delete.action_item_id" >>
                     ELSE << >>)
             linked ==
                 IF deleteLinkedRecords
                 THEN << "notifications.delete" >>
                      \o (IF "notifications" \in errors THEN fallback ELSE << >>)
                      \o << "lead_action_items.delete" >>
                 ELSE << >>
             thrown == deleteLinkedRecords /\ "lead_action_items" \in errors
         IN  [ calls |-> IF thrown THEN linked ELSE linked \o << "leads.delete" >>,
               deleted |-> ~thrown /\ "leads" \notin errors,
               done |-> ~thrown /\ "leads" \notin errors ]

LeadErrors == SUBSET { "notifications", "lead_action_items", "leads" }

\* Confirm of LeadDeleteConfirmDialog
LeadHandleDelete(deleteLinkedRecords, errors, actionItems) ==
    /\ view = "leads"
    /\ showDeleteDialog
    /\ LET result == handleDelete(toDelete, deleteLinkedRecords, errors, actionItems)
       IN  /\ calls' = result.calls
           /\ backend' = (IF result.deleted THEN withoutIds(backend, << toDelete[1].id >>)
                          ELSE backend)
           /\ loading' = (IF result.done THEN TRUE ELSE loading)
           /\ toDelete' = (IF result.done THEN << >> ELSE toDelete)
           /\ showDeleteDialog' = (IF result.done THEN FALSE ELSE showDeleteDialog)
    /\ UNCHANGED << calculatorVars, refreshTrigger, inFlight, view, records, filtered,
                    searchTerm, statusFilter, ownerFilter, tagFilter, sortColumn,
                    sortDirection, currentPage, selectedIds, now, memoNow, memoOwner,
                    renderNow >>

\* handleDelete of AccountTable (Confirm of AccountDeleteConfirmDialog).  linked: the
\* account has linked contacts or leads; error: the delete reports an error
AccountHandleDelete(linked, error) ==
    /\ view = "accounts"
    /\ showDeleteDialog
    /\ toDelete # << >> /\ "id" \in DOMAIN toDelete[1]
    /\ calls' = << "contacts.select", "leads.select" >>
                \o (IF linked THEN << >> ELSE << "accounts.delete" >>)
    /\ backend' = (IF ~linked /\ ~error THEN withoutIds(backend, << toDelete[1].id >>)
                   ELSE backend)
    /\ loading' = (IF ~linked /\ ~error THEN TRUE ELSE loading)
    /\ toDelete' = (IF ~linked /\ ~error THEN << >> ELSE toDelete)
    /\ showDeleteDialog' = (IF ~linked /\ error THEN showDeleteDialog ELSE FALSE)
    /\ UNCHANGED << calculatorVars, refreshTrigger, inFlight, view, records, filtered,
                    searchTerm, statusFilter, ownerFilter, tagFilter, sortColumn,
                    sortDirection, currentPage, selectedIds, now, memoNow, memoOwner,
                    renderNow >>

\* Delete of the AlertDialog of ContactTable: handleDelete(contactToDelete),
\* setContactToDelete(null), and the dialog closes
ContactHandleDelete(error) ==
    /\ view = "contacts"
    /\ showDeleteDialog
    /\ toDelete # << >>
    /\ calls' = << "contacts.delete" >>
    /\ backend' = (IF error THEN backend ELSE withoutIds(backend, toDelete))
    /\ loading' = (IF error THEN loading ELSE TRUE)
    /\ toDelete' = << >>
    /\ showDeleteDialog' = FALSE
    /\ UNCHANGED << calculatorVars, refreshTrigger, inFlight, view, records, filtered,
                    searchTerm, statusFilter, ownerFilter, tagFilter, sortColumn,
                    sortDirection, currentPage, selectedIds, now, memoNow, memoOwner,
                    renderNow >>

\* Delete of the AlertDialog of Meetings: handleDelete(meetingToDelete),
\* setMeetingToDelete(null), and the dialog closes
MeetingsHandleDelete(error) ==
    /\ view = "meetings"
    /\ showDeleteDialog
    /\ toDelete # << >>
    /\ calls' = << "meetings.delete" >>
    /\ backend' = (IF error THEN backend ELSE withoutIds(backend, toDelete))
    /\ loading' = (IF error THEN loading ELSE TRUE)
    /\ toDelete' = << >>
    /\ showDeleteDialog' = FALSE
    /\ UNCHANGED << calculatorVars, refreshTrigger, inFlight, view, records, filtered,
                    searchTerm, statusFilter, ownerFilter, tagFilter, sortColumn,
                    sortDirection, currentPage, selectedIds, now, memoNow, memoOwner,
                    renderNow >>

\* the requests handleBulkDelete of page v sends for a selection: Leads and Contacts
\* return before any request when the selection is empty, Meetings has no such test
bulkDeleteCalls(v, ids) ==
    CASE v = "leads"    -> IF Len(ids) = 0 THEN << >> ELSE << "deleteLeads" >>
      [] v = "contacts" -> IF Len(ids) = 0 THEN << >> ELSE << "contacts.delete.in" >>
      [] OTHER          -> << "meetings.delete.in" >>

\* deleteLeads of useLeadDeletion, the mutation sink of the Leads page: it deletes
\* the leads of the id list and reports success, or reports failure
deleteLeads(rows, leadIds, success) == IF success THEN withoutIds(rows, leadIds) ELSE rows

\* handleBulkDelete of Leads, from the bulk delete dialog.  On success the LeadTable,
\* keyed by refreshTrigger, is mounted anew
LeadsHandleBulkDelete(success) ==
    /\ view = "leads"
    /\ Len(selectedIds) > 0
    /\ calls' = bulkDeleteCalls("leads", selectedIds)
    /\ backend' = deleteLeads(backend, selectedIds, success)
    /\ IF success
       THEN /\ selectedIds' = << >>
            /\ refreshTrigger' = refreshTrigger + 1
            /\ records' = << >>
            /\ filtered' = << >>
            /\ loading' = TRUE
            /\ searchTerm' = << >>
            /\ statusFilter' = defaultStatus("leads")
            /\ ownerFilter' = "all"
            /\ sortColumn' = None
            /\ sortDirection' = "asc"
            /\ currentPage' = 1
            /\ toDelete' = << >>
            /\ showDeleteDialog' = FALSE
       ELSE UNCHANGED << selectedIds, refreshTrigger, records, filtered, loading,
                         searchTerm, statusFilter, ownerFilter, sortColumn, sortDirection,
                         currentPage, toDelete, showDeleteDialog >>
    /\ UNCHANGED << calculatorVars, inFlight, view, tagFilter, now, memoNow, memoOwner,
                    renderNow >>

\* mutant: the refresh is triggered whatever the backend reports
ContactsHandleBulkDelete_alwaysRefresh(error) ==
    /\ view = "contacts"
    /\ Len(selectedIds) > 0
    /\ calls' = bulkDeleteCalls("contacts", selectedIds)
    /\ backend' = (IF error THEN backend ELSE withoutIds(backend, selectedIds))
    /\ selectedIds' = (IF error THEN selectedIds ELSE << >>)
    /\ refreshTrigger' = refreshTrigger + 1
    /\ loading' = TRUE
    /\ UNCHANGED << calculatorVars, inFlight, toDelete, showDeleteDialog, view, records,
                    filtered, searchTerm, statusFilter, ownerFilter, tagFilter, sortColumn,
                    sortDirection, currentPage, now, memoNow, memoOwner, renderNow >>

\* handleBulkDelete of Contacts, from the Delete Selected button, shown while the
\* selection is not empty; the effect on refreshTrigger calls fetchContacts
ContactsHandleBulkDelete(error) ==
    /\ view = "contacts"
    /\ Len(selectedIds) > 0
    /\ calls' = bulkDeleteCalls("contacts", selectedIds)
    /\ backend' = (IF error THEN backend ELSE withoutIds(backend, selectedIds))
    /\ selectedIds' = (IF error THEN selectedIds ELSE << >>)
    /\ refreshTrigger' = (IF error THEN refreshTrigger ELSE refreshTrigger + 1)
    /\ loading' = (IF error THEN loading ELSE TRUE)
    /\ UNCHANGED << calculatorVars, inFlight, toDelete, showDeleteDialog, view, records,
                    filtered, searchTerm, statusFilter, ownerFilter, tagFilter, sortColumn,
                    sortDirection, currentPage, now, memoNow, memoOwner, renderNow >>

\* handleBulkDelete of Meetings, from the bulk delete dialog, opened by a button shown
\* while the selection is not empty; it ends with fetchMeetings()
MeetingsHandleBulkDelete(error) ==
    /\ view = "meetings"
    /\ ~loading
    /\ Len(selectedIds) > 0
    /\ calls' = bulkDeleteCalls("meetings", selectedIds)
    /\ backend' = (IF error THEN backend ELSE withoutIds(backend, selectedIds))
    /\ selectedIds' = (IF error THEN selectedIds ELSE << >>)
    /\ loading' = (IF error THEN loading ELSE TRUE)
    /\ UNCHANGED << calculatorVars, refreshTrigger, inFlight, toDelete, showDeleteDialog,
                    view, records, filtered, searchTerm, statusFilter, ownerFilter,
                    tagFilter, sortColumn, sortDirection, currentPage, now, memoNow,
                    memoOwner, renderNow >>

\* a fetch whose select reports an error: the catch shows a toast, finally clears
\* loading, and the records stay as they were
FetchFailed ==
    /\ loading
    /\ loading' = FALSE
    /\ UNCHANGED << deletionVars, calculatorVars, view, backend, records, filtered,
                    searchTerm, statusFilter, ownerFilter, tagFilter, sortColumn,
                    sortDirection, currentPage, selectedIds, now, memoNow, memoOwner,
                    renderNow >>
(***************************************************************************)
(* Deletion specification: every page over tables of a few rows, with the  *)
(* search box, the checkboxes, the delete dialog and the bulk delete.  The *)
(* dialogs are modal: the page takes no click while one is open.           *)
(***************************************************************************)
DeletionTables(v) == { bulkTable(v, n) : n \in 1..MaxToggle }

InitDeletion ==
    \/ MeetingsInit(DeletionTables("meetings"), { "all" }, { "all" })
    \/ \E v \in TableViews : TableInit(v, DeletionTables(v), { defaultStatus(v) })

\* the selection is deleted in bulk until refreshTrigger is MaxDeletes
NextDeletion ==
    \/ MeetingsFetchDone
    \/ TableFetchDone
    \/ FetchFailed
    \/ \E term \in PagingTerms : ~showDeleteDialog /\ MeetingsSetSearchTerm(term)
    \/ \E term \in PagingTerms : ~showDeleteDialog /\ TableSetSearchTerm(term)
    \/ \E checked \in BOOLEAN : ~showDeleteDialog /\ MeetingsHandleSelectAll(checked)
    \/ \E checked \in BOOLEAN : ~showDeleteDialog /\ TableHandleSelectAll(checked)
    \/ \E i \in 1..MaxToggle : ~showDeleteDialog /\ MeetingsHandleSelectMeeting(i)
    \/ \E i \in 1..MaxToggle : ~showDeleteDialog /\ TableHandleSelectRow(i)
    \/ \E i \in 1..MaxToggle : OpenDeleteDialog(i)
    \/ CancelDelete
    \/ \E deleteLinkedRecords \in BOOLEAN, errors \in LeadErrors, actionItems \in BOOLEAN :
           LeadHandleDelete(deleteLinkedRecords, errors, actionItems)
    \/ \E linked \in BOOLEAN, error \in BOOLEAN : AccountHandleDelete(linked, error)
    \/ \E error \in BOOLEAN : ContactHandleDelete(error)
    \/ \E error \in BOOLEAN : MeetingsHandleDelete(error)
    \/ \E success \in BOOLEAN : ~showDeleteDialog /\ refreshTrigger < MaxDeletes /\ LeadsHandleBulkDelete(success)
    \/ \E error \in BOOLEAN : ~showDeleteDialog /\ refreshTrigger < MaxDeletes /\ ContactsHandleBulkDelete(error)
    \/ \E error \in BOOLEAN : ~showDeleteDialog /\ MeetingsHandleBulkDelete(error)

SpecDeletion == InitDeletion /\ [][NextDeletion]_vars

(***************************************************************************)
(* Page range specification: the Leads and Accounts tables over a list of  *)
(* two pages, with the search box, the status filter, the page controls    *)
(* and the delete dialog, whose fetch shortens the list.                   *)
(***************************************************************************)
PageRangeTables(v) == { bulkTable(v, n) : n \in { 0, itemsPerPage + 1 } }

\* deletes are started until MaxDeletes rows of the table are gone
deleteAllowed == Len(backend) + MaxDeletes > itemsPerPage + 1

InitPageRange ==
    \E v \in { "leads", "accounts" } : TableInit(v, PageRangeTables(v), { defaultStatus(v) })

NextPageRange ==
    \/ TableFetchDone
    \/ FetchFailed
    \/ \E term \in PagingTerms : ~showDeleteDialog /\ TableSetSearchTerm(term)
    \/ \E value \in ResetStatuses(view) : ~showDeleteDialog /\ TableSetStatusFilter(value)
    \/ ~showDeleteDialog /\ TablePreviousPage
    \/ ~showDeleteDialog /\ TableNextPage
    \/ \E i \in 1..MaxToggle : deleteAllowed /\ OpenDeleteDialog(i)
    \/ CancelDelete
    \/ \E errors \in { {}, { "leads" } } : LeadHandleDelete(TRUE, errors, FALSE)
    \/ \E linked \in BOOLEAN, error \in BOOLEAN : AccountHandleDelete(linked, error)

SpecPageRange == InitPageRange /\ [][NextPageRange]_vars

\* C24: in the Leads and Accounts tables currentPage lies in 1..max(1, totalPages) in
\* every reachable state: Next never passes the last page, Previous never goes below
\* 1, and currentPage is 1, never 0, when the filtered list is empty.
PageInRange ==
    view \in { "leads", "accounts" } =>
        /\ currentPage >= 1
        /\ currentPage <= (IF totalPagesOf(filtered) > 1 THEN totalPagesOf(filtered) ELSE 1)
        /\ Len(filtered) = 0 => currentPage = 1

\* the fetch after a delete has answered while the list is searched: the list of two
\* pages is down to one
ShrunkToOnePage ==
    /\ view \in { "leads", "accounts" }
    /\ ~loading
    /\ Len(records) = itemsPerPage
    /\ wasCalled(calls, IF view = "leads" THEN "leads.delete" ELSE "accounts.delete")
    /\ currentPage = 1
\* C25: once a fetch has completed, every selected id is the id of a record of the
\* raw record collection, in Leads, Contacts and Meetings, also after the delete of
\* a single row that was selected.
SelectedIdsExist ==
    (view \in { "leads", "contacts", "meetings" } /\ ~loading) =>
        \A k \in 1..Len(selectedIds) : hasId(idList(records), selectedIds[k])
\* C26: a bulk delete the backend reports as successful empties the selection and
\* triggers a refresh of the records; one it reports as failed leaves the selection
\* as it was and triggers no refresh; with an empty selection the handlers of Leads
\* and Contacts send no delete request.
BulkDeleteOutcome ==
    /\ bulkDeleteCalls("leads", << >>) = << >>
    /\ bulkDeleteCalls("contacts", << >>) = << >>
    /\ [][ /\ \A ok \in BOOLEAN :
                  ( \/ LeadsHandleBulkDelete(ok)
                    \/ ContactsHandleBulkDelete(~ok)
                    \/ MeetingsHandleBulkDelete(~ok) ) =>
                      /\ Len(calls') = 1
                      /\ IF ok
                         THEN /\ selectedIds' = << >>
                              /\ loading'
                              /\ view # "meetings" => refreshTrigger' = refreshTrigger + 1
                         ELSE /\ selectedIds' = selectedIds
                              /\ refreshTrigger' = refreshTrigger
                              /\ loading' = loading
                              /\ records' = records /\ filtered' = filtered ]_vars

\* a bulk delete has failed after an earlier one went through: the selection is still
\* there and refreshTrigger is where the first one left it
FailedAfterRefresh ==
    /\ view = "contacts"
    /\ calls = << "contacts.delete.in" >>
    /\ Len(selectedIds) > 0
    /\ refreshTrigger = 1
    /\ ~loading
\* the answers handleDelete can get and a lead that has no id
DeleteAnswers == BOOLEAN \X LeadErrors \X BOOLEAN

leadWithoutId == [ lead_name |-> << "a" >> ]

\* index of a request in the log; 0 when it was not sent
callIndex(log, request) ==
    IF wasCalled(log, request) THEN CHOOSE k \in 1..Len(log) : log[k] = request ELSE 0

\* with no lead, or a lead without id, handleDelete sends nothing
NoLeadNoCall ==
    \A answer \in DeleteAnswers :
        /\ handleDelete(<< >>, answer[1], answer[2], answer[3]).calls = << >>
        /\ handleDelete(<< leadWithoutId >>, answer[1], answer[2], answer[3]).calls = << >>

\* the requests of a run with deleteLinkedRecords are in order: notifications, then
\* the action items, then the lead, which is requested only after an action-item
\* delete without error
callsInOrder(log, errors) ==
    /\ log[1] = "notifications.delete"
    /\ wasCalled(log, "lead_action_items.delete")
    /\ \A k \in 1..Len(log) :
           log[k] \in { "notifications.delete", "notifications.delete.lead_id",
                        "lead_action_items.select", "notifications.delete.action_item_id" }
               => k < callIndex(log, "lead_action_items.delete")
    /\ wasCalled(log, "leads.delete") =>
           /\ callIndex(log, "leads.delete") = Len(log)
           /\ callIndex(log, "lead_action_items.delete") = Len(log) - 1
           /\ "lead_action_items" \notin errors

\* C29 as written: deletion of a lead with deleteLinkedRecords is ordered, and on any
\* error the lead is not deleted, the dialog stays open and leadToDelete is kept; with
\* no lead or a lead without id nothing is sent.
LeadDeleteStopsOnAnyError ==
    /\ NoLeadNoCall
    /\ [][ \A errors \in LeadErrors, actionItems \in BOOLEAN :
               LeadHandleDelete(TRUE, errors, actionItems) =>
                   /\ callsInOrder(calls', errors)
                   /\ errors # {} =>
                          /\ backend' = backend
                          /\ showDeleteDialog'
                          /\ toDelete' = toDelete ]_vars

\* C29, amended: deletion of a lead with deleteLinkedRecords is ordered; an error of
\* the action-item delete or of the lead delete leaves the lead in place, the dialog
\* open and leadToDelete kept, while an error of the notification delete only adds the
\* fallback requests and the deletion goes on; without such an error the lead is
\* deleted, the dialog closes and a fetch starts; with no lead or a lead without id
\* nothing is sent.
LeadDeleteIsOrdered ==
    /\ NoLeadNoCall
    /\ [][ \A errors \in LeadErrors, actionItems \in BOOLEAN :
               LeadHandleDelete(TRUE, errors, actionItems) =>
                   /\ callsInOrder(calls', errors)
                   /\ wasCalled(calls', "notifications.delete.lead_id")
                          <=> "notifications" \in errors
                   /\ IF errors \cap { "lead_action_items", "leads" } # {}
                      THEN /\ backend' = backend
                           /\ showDeleteDialog'
                           /\ toDelete' = toDelete
                           /\ loading' = loading
                      ELSE /\ backend' = withoutIds(backend, << toDelete[1].id >>)
                           /\ ~showDeleteDialog'
                           /\ toDelete' = << >>
                           /\ loading' ]_vars

\* the delete of the action items has failed: the dialog is still open on the lead
StoppedAtActionItems ==
    /\ view = "leads"
    /\ showDeleteDialog
    /\ toDelete # << >>
    /\ calls = << "notifications.delete", "lead_action_items.delete" >>
    /\ hasId(idList(backend), toDelete[1].id)
\* C28: in the Leads, Contacts and Accounts tables, whenever the header checkbox is
\* shown as checked, every row of the current page is selected.
HeaderCheckedIsSound ==
    (view \in TableViews /\ headerShown /\ headerChecked) =>
        \A i \in 1..Len(pageRows) : hasId(selectedIds, pageRows[i].id)
(***************************************************************************)
(* Overlap specification: the Meetings page with its delete and select     *)
(* requests in flight.  A request is sent by the page, run by the backend, *)
(* and its response returns to the page; the responses of the requests in  *)
(* flight return in any order.  The selects are answered without error.    *)
(***************************************************************************)
deleteRequest(id) ==
    [ request |-> "delete", id |-> id, done |-> FALSE, error |-> FALSE, data |-> << >> ]

selectRequest ==
    [ request |-> "select", id |-> 0, done |-> FALSE, error |-> FALSE, data |-> << >> ]

\* the sequence without its k-th element
removeAt(seq, k) == [ i \in 1..(Len(seq) - 1) |-> IF i < k THEN seq[i] ELSE seq[i + 1] ]

\* a select of fetchMeetings has not returned yet
fetchInFlight == \E k \in 1..Len(inFlight) : inFlight[k].request = "select"

\* Delete of the AlertDialog, up to the await of handleDelete: the delete request
\* leaves, setMeetingToDelete(null), and the dialog closes
MeetingsSendDelete ==
    /\ view = "meetings"
    /\ ~loading
    /\ showDeleteDialog
    /\ toDelete # << >>
    /\ Len(inFlight) < MaxDeletes
    /\ inFlight' = Append(inFlight, deleteRequest(toDelete[1]))
    /\ calls' = << "meetings.delete" >>
    /\ toDelete' = << >>
    /\ showDeleteDialog' = FALSE
    /\ UNCHANGED << calculatorVars, refreshTrigger, view, backend, records, filtered,
                    loading, searchTerm, statusFilter, ownerFilter, tagFilter, sortColumn,
                    sortDirection, currentPage, selectedIds, now, memoNow, memoOwner,
                    renderNow >>

\* the backend runs the delete request k, with or without error
BackendRunsDelete(k, error) ==
    /\ k \in 1..Len(inFlight)
    /\ inFlight[k].request = "delete"
    /\ ~inFlight[k].done
    /\ backend' = (IF error THEN backend ELSE withoutIds(backend, << inFlight[k].id >>))
    /\ inFlight' = [ inFlight EXCEPT ![k].done = TRUE, ![k].error = error ]
    /\ UNCHANGED << calculatorVars, refreshTrigger, calls, toDelete, showDeleteDialog, view,
                    records, filtered, loading, searchTerm, statusFilter, ownerFilter,
                    tagFilter, sortColumn, sortDirection, currentPage, selectedIds, now,
                    memoNow, memoOwner, renderNow >>

\* the backend runs the select request k: the response carries the rows it has then
BackendRunsSelect(k) ==
    /\ k \in 1..Len(inFlight)
    /\ inFlight[k].request = "select"
    /\ ~inFlight[k].done
    /\ inFlight' = [ inFlight EXCEPT ![k].done = TRUE, ![k].data = backend ]
    /\ UNCHANGED << calculatorVars, refreshTrigger, calls, toDelete, showDeleteDialog, view,
                    backend, records, filtered, loading, searchTerm, statusFilter,
                    ownerFilter, tagFilter, sortColumn, sortDirection, currentPage,
                    selectedIds, now, memoNow, memoOwner, renderNow >>

\* handleDelete of Meetings from its await on: an error is thrown to the toast, a
\* success calls fetchMeetings(), which sets loading and sends its select
MeetingsDeleteReturns(k) ==
    /\ view = "meetings"
    /\ k \in 1..Len(inFlight)
    /\ inFlight[k].request = "delete"
    /\ inFlight[k].done
    /\ IF inFlight[k].error
       THEN /\ inFlight' = removeAt(inFlight, k)
            /\ UNCHANGED loading
       ELSE /\ inFlight' = Append(removeAt(inFlight, k), selectRequest)
            /\ loading' = TRUE
    /\ UNCHANGED << calculatorVars, refreshTrigger, calls, toDelete, showDeleteDialog, view,
                    backend, records, filtered, searchTerm, statusFilter, ownerFilter,
                    tagFilter, sortColumn, sortDirection, currentPage, selectedIds, now,
                    memoNow, memoOwner, renderNow >>

\* fetchMeetings from its await on: setMeetings, setSelectedMeetings([]), and
\* setLoading(false) in finally
MeetingsSelectReturns(k) ==
    /\ view = "meetings"
    /\ k \in 1..Len(inFlight)
    /\ inFlight[k].request = "select"
    /\ inFlight[k].done
    /\ inFlight' = removeAt(inFlight, k)
    /\ records' = inFlight[k].data
    /\ selectedIds' = << >>
    /\ loading' = FALSE
    /\ UNCHANGED << calculatorVars, refreshTrigger, calls, toDelete, showDeleteDialog, view,
                    backend, searchTerm, statusFilter, ownerFilter, tagFilter, sortColumn,
                    sortDirection, currentPage, now >>
    /\ MeetingsPass

InitOverlap == MeetingsInit(DeletionTables("meetings"), { "all" }, { "all" })

\* the fetch of the mount is answered before the first click
NextOverlap ==
    \/ inFlight = << >> /\ MeetingsFetchDone
    \/ \E i \in 1..MaxToggle : OpenDeleteDialog(i)
    \/ CancelDelete
    \/ \E i \in 1..MaxToggle : ~showDeleteDialog /\ MeetingsHandleSelectMeeting(i)
    \/ MeetingsSendDelete
    \/ \E k \in 1..MaxDeletes, error \in BOOLEAN : BackendRunsDelete(k, error)
    \/ \E k \in 1..MaxDeletes : BackendRunsSelect(k)
    \/ \E k \in 1..MaxDeletes : MeetingsDeleteReturns(k)
    \/ \E k \in 1..MaxDeletes : MeetingsSelectReturns(k)

SpecOverlap == InitOverlap /\ [][NextOverlap]_vars

\* C27: when several deletes and refreshes of Meetings are in flight and their
\* responses return in any order, loading is true whenever a fetch is still in
\* flight, and once every request has completed the meetings displayed are the
\* meetings of the backend.
RefreshSettles ==
    /\ fetchInFlight => loading
    /\ (inFlight = << >> /\ ~loading) => idList(records) = idList(backend)

(***************************************************************************)
(* Calculator.  display is the text on screen, a sequence of characters;   *)
(* a number is an integer count of units of 1 / Scale, so a text with up   *)
(* to MaxDecimals decimals is read exactly.  A key is taken only while     *)
(* its result fits: a text of at most MaxDisplay characters with at most   *)
(* MaxDecimals decimals, and no division by zero.                          *)
(***************************************************************************)
MaxDisplay == 3
MaxDecimals == 1

RECURSIVE pow10(_)
pow10(n) == IF n = 0 THEN 1 ELSE 10 * pow10(n - 1)

Scale == pow10(MaxDecimals)

DigitChars == << "0", "1", "2", "3", "4", "5", "6", "7", "8", "9" >>

\* the digit keys pressed in the model
KeyDigits == { "0", "2", "3" }

Operations == { "+", "-", "×", "÷" }

digitValue(c) == (CHOOSE k \in 1..10 : DigitChars[k] = c) - 1

RECURSIVE digitsValue(_)
digitsValue(ds) ==
    IF Len(ds) = 0 THEN 0
    ELSE 10 * digitsValue(SubSeq(ds, 1, Len(ds) - 1)) + digitValue(ds[Len(ds)])

\* decimal digits of a natural number
RECURSIVE digitsOf(_)
digitsOf(n) ==
    IF n < 10 THEN << DigitChars[n + 1] >>
    ELSE Append(digitsOf(n \div 10), DigitChars[(n % 10) + 1])

\* String.prototype.includes(".")
hasPoint(s) == \E k \in 1..Len(s) : s[k] = "."

\* the decimals typed after the point
decimalsOf(s) ==
    IF hasPoint(s) THEN Len(s) - (CHOOSE k \in 1..Len(s) : s[k] = ".") ELSE 0

\* parseFloat of a display text: sign, integer digits, point, decimals
parseFloat(s) ==
    LET negative == Len(s) > 0 /\ s[1] = "-"
        body == IF negative THEN Tail(s) ELSE s
        point == IF hasPoint(body) THEN CHOOSE k \in 1..Len(body) : body[k] = "."
                 ELSE Len(body) + 1
        whole == digitsValue(SubSeq(body, 1, point - 1))
        decimals == SubSeq(body, point + 1, Len(body))
        fraction == digitsValue(decimals) * pow10(MaxDecimals - Len(decimals))
    IN  (IF negative THEN -1 ELSE 1) * (whole * Scale + fraction)

\* the decimals of a fraction of Scale units, without trailing zeros
RECURSIVE fractionChars(_, _)
fractionChars(units, width) ==
    IF units = 0 THEN << >>
    ELSE << DigitChars[(units \div pow10(width - 1)) + 1] >>
         \o fractionChars(units % pow10(width - 1), width - 1)

\* Number.prototype.toString
toString(value) ==
    LET size == IF value < 0 THEN -value ELSE value
        whole == digitsOf(size \div Scale)
        fraction == fractionChars(size % Scale, MaxDecimals)
    IN  (IF value < 0 THEN << "-" >> ELSE << >>)
        \o whole
        \o (IF Len(fraction) > 0 THEN << "." >> \o fraction ELSE << >>)

\* Math.abs
abs(x) == IF x < 0 THEN -x ELSE x

\* the result of an operation can be written with the digits the model keeps
exact(op, a, b) ==
    CASE op = "×" -> (a * b) % Scale = 0
      [] op = "÷" -> b # 0 /\ (abs(a) * Scale) % abs(b) = 0
      [] OTHER    -> TRUE

\* the switch of calculate
resultOf(op, a, b) ==
    CASE op = "+" -> a + b
      [] op = "-" -> a - b
      [] op = "×" -> (a * b) \div Scale
      [] op = "÷" -> (IF (a < 0) = (b < 0) THEN 1 ELSE -1)
                     * ((abs(a) * Scale) \div abs(b))

\* the text of a number fits the characters the model keeps on the display
fits(value) == Len(toString(value)) <= MaxDisplay

handleNumber(num) ==
    /\ view = "calculator"
    /\ IF shouldResetDisplay
       THEN /\ display' = << num >>
            /\ shouldResetDisplay' = FALSE
       ELSE /\ Len(display) < MaxDisplay
            /\ hasPoint(display) => decimalsOf(display) < MaxDecimals
            /\ display' = (IF display = << "0" >> THEN << num >> ELSE Append(display, num))
            /\ UNCHANGED shouldResetDisplay
    /\ UNCHANGED << deletionVars, previousValue, operation, view, backend, records,
                    filtered, loading, searchTerm, statusFilter, ownerFilter, tagFilter,
                    sortColumn, sortDirection, currentPage, selectedIds, now, memoNow,
                    memoOwner, renderNow >>

handleDecimal ==
    /\ view = "calculator"
    /\ IF shouldResetDisplay
       THEN /\ display' = << "0", "." >>
            /\ shouldResetDisplay' = FALSE
       ELSE /\ Len(display) < MaxDisplay
            /\ display' = (IF hasPoint(display) THEN display ELSE Append(display, "."))
            /\ UNCHANGED shouldResetDisplay
    /\ UNCHANGED << deletionVars, previousValue, operation, view, backend, records,
                    filtered, loading, searchTerm, statusFilter, ownerFilter, tagFilter,
                    sortColumn, sortDirection, currentPage, selectedIds, now, memoNow,
                    memoOwner, renderNow >>

\* handleOperation: with an operation pending it calls calculate(), whose
\* setPreviousValue(null) stands, and then setOperation(op) replaces calculate's
\* setOperation(null) in the same batch of updates
handleOperation(op) ==
    /\ view = "calculator"
    /\ LET currentValue == parseFloat(display)
       IN  IF previousValue # << >> /\ operation # None /\ ~shouldResetDisplay
           THEN /\ exact(operation, previousValue[1], currentValue)
                /\ fits(resultOf(operation, previousValue[1], currentValue))
                /\ display' = toString(resultOf(operation, previousValue[1], currentValue))
                /\ previousValue' = << >>
           ELSE /\ previousValue' = << currentValue >>
                /\ UNCHANGED display
    /\ operation' = op
    /\ shouldResetDisplay' = TRUE
    /\ UNCHANGED << deletionVars, view, backend, records, filtered, loading, searchTerm,
                    statusFilter, ownerFilter, tagFilter, sortColumn, sortDirection,
                    currentPage, selectedIds, now, memoNow, memoOwner, renderNow >>

\* calculate, from the = button and the Enter key
calculate ==
    /\ view = "calculator"
    /\ IF previousValue = << >> \/ operation = None
       THEN UNCHANGED << display, previousValue, operation, shouldResetDisplay >>
       ELSE LET currentValue == parseFloat(display)
            IN  /\ exact(operation, previousValue[1], currentValue)
                /\ fits(resultOf(operation, previousValue[1], currentValue))
                /\ display' = toString(resultOf(operation, previousValue[1], currentValue))
                /\ previousValue' = << >>
                /\ operation' = None
                /\ shouldResetDisplay' = TRUE
    /\ UNCHANGED << deletionVars, view, backend, records, filtered, loading, searchTerm,
                    statusFilter, ownerFilter, tagFilter, sortColumn, sortDirection,
                    currentPage, selectedIds, now, memoNow, memoOwner, renderNow >>

handleClear ==
    /\ view = "calculator"
    /\ display' = << "0" >>
    /\ previousValue' = << >>
    /\ operation' = None
    /\ shouldResetDisplay' = FALSE
    /\ UNCHANGED << deletionVars, view, backend, records, filtered, loading, searchTerm,
                    statusFilter, ownerFilter, tagFilter, sortColumn, sortDirection,
                    currentPage, selectedIds, now, memoNow, memoOwner, renderNow >>

handlePercentage ==
    /\ view = "calculator"
    /\ parseFloat(display) % 100 = 0
    /\ fits(parseFloat(display) \div 100)
    /\ display' = toString(parseFloat(display) \div 100)
    /\ UNCHANGED << deletionVars, previousValue, operation, shouldResetDisplay, view,
                    backend, records, filtered, loading, searchTerm, statusFilter,
                    ownerFilter, tagFilter, sortColumn, sortDirection, currentPage,
                    selectedIds, now, memoNow, memoOwner, renderNow >>

handleToggleSign ==
    /\ view = "calculator"
    /\ fits(parseFloat(display) * (-1))
    /\ display' = toString(parseFloat(display) * (-1))
    /\ UNCHANGED << deletionVars, previousValue, operation, shouldResetDisplay, view,
                    backend, records, filtered, loading, searchTerm, statusFilter,
                    ownerFilter, tagFilter, sortColumn, sortDirection, currentPage,
                    selectedIds, now, memoNow, memoOwner, renderNow >>

InitCalculator ==
    /\ view = "calculator"
    /\ backend = << >>
    /\ records = << >>
    /\ filtered = << >>
    /\ loading = FALSE
    /\ searchTerm = << >>
    /\ statusFilter = "all"
    /\ ownerFilter = "all"
    /\ tagFilter = None
    /\ sortColumn = None
    /\ sortDirection = "asc"
    /\ currentPage = 1
    /\ selectedIds = << >>
    /\ now = 0
    /\ memoNow = 0
    /\ memoOwner = "all"
    /\ renderNow = 0
    /\ DeletionInit
    /\ CalculatorInit

NextCalculator ==
    \/ \E num \in KeyDigits : handleNumber(num)
    \/ handleDecimal
    \/ \E op \in Operations : handleOperation(op)
    \/ calculate
    \/ handleClear
    \/ handlePercentage
    \/ handleToggleSign

SpecCalculator == InitCalculator /\ [][NextCalculator]_vars

\* C30: in every state reached by digit, decimal, operator, equals and clear inputs,
\* operation is non-null only if previousValue is non-null; after an operator pressed
\* while another operation is pending the intermediate result is kept as
\* previousValue.
OperationHasPreviousValue == operation # None => previousValue # << >>
====
